---- MODULE Spec2Model ----
(***************************************************************************)
(* State-machine model of text_toolkit: the lazily tokenized TextDocument, *)
(* the TransformerPipeline (Cleaner, Normalizer, Tokenizer), the           *)
(* AnalyzerRunner with its four analyzers and the ExtractorRunner with     *)
(* the regex extractors.                                                   *)
(*                                                                         *)
(* A text is a sequence of characters; a character is a one-element        *)
(* string, except the few non-ASCII characters, which carry a name:        *)
(*   "e_acute"    U+00E9  LATIN SMALL LETTER E WITH ACUTE                  *)
(*   "E_acute"    U+00C9  LATIN CAPITAL LETTER E WITH ACUTE                *)
(*   "comb_acute" U+0301  COMBINING ACUTE ACCENT                           *)
(***************************************************************************)
EXTENDS Integers, Sequences, FiniteSets, TLC

VARIABLES
    content,            \* TextDocument.content
    tokensCache,        \* TextDocument._tokens: [set |-> FALSE] is None
    analysis_results,   \* TextDocument.analysis_results
    metadata,           \* TextDocument.metadata
    runner,             \* the runner in use: its kind, self.analyzers, the keys of self.extractors
    allowArg,           \* the allow-list argument the runner was constructed with
    pc,                 \* "idle", or "analyze" inside AnalyzerRunner.analyze
    ai,                 \* the index of the loop of analyze over self.analyzers
    summary,            \* the local summary of analyze
    ret,                \* the outcome of the last call that finished
    evals,              \* how many times the tokenization was evaluated
    firstRead,          \* what the first read of tokens returned
    execLog,            \* the analyzers executed by the last analyze, with what each read
    invoked,            \* the extractors invoked by the last extract_all
    tpc,                \* per reader thread: its position in the tokens property
    tlocal,             \* per reader thread: the list it evaluated, not yet stored
    tret,               \* per reader thread: what its last read returned
    tevals,             \* per reader thread: how many times it evaluated the tokenization
    call,               \* the last call of a transformer, analyzer or extractor: its
                        \* function, arguments, input and outcome
    extractor,          \* the extractor object in use: its class and the compiled
                        \* patterns of its _regex_pattern_list
    documents,          \* several TextDocument objects given to one runner: the
                        \* content, _tokens and analysis_results of each
    runs,               \* the calls of analyze and extract_all on those documents:
                        \* the position, locals and outcome of each
    proc                \* one call of process_document: its position, config and locals

docVars == << content, tokensCache, analysis_results, metadata >>

runVars == << runner, allowArg, pc, ai, summary, execLog, invoked >>

obsVars == << ret, evals, firstRead >>

thrVars == << tpc, tlocal, tret, tevals >>

libVars == << call, extractor >>

appVars == << documents, runs, proc >>

vars == << content, tokensCache, analysis_results, metadata, runner, allowArg, pc, ai,
           summary, ret, evals, firstRead, execLog, invoked, tpc, tlocal, tret, tevals,
           call, extractor, documents, runs, proc >>

\* ------------------------------------------------------------------------
\* Characters and the character classes of Python's re module (str patterns)
\* ------------------------------------------------------------------------

LowerSeq == << "a","b","c","d","e","f","g","h","i","j","k","l","m",
               "n","o","p","q","r","s","t","u","v","w","x","y","z", "e_acute" >>

UpperSeq == << "A","B","C","D","E","F","G","H","I","J","K","L","M",
               "N","O","P","Q","R","S","T","U","V","W","X","Y","Z", "E_acute" >>

Range(s) == { s[i] : i \in DOMAIN s }

LowerSet == Range(LowerSeq)

UpperSet == Range(UpperSeq)

AsciiLower == LowerSet \ {"e_acute"}

AsciiUpper == UpperSet \ {"E_acute"}

AsciiAlpha == AsciiLower \cup AsciiUpper

Digit == {"0","1","2","3","4","5","6","7","8","9"}

\* \s and str.isspace; "nbsp" is U+00A0
Space == {" ", "\n", "\t", "nbsp"}

\* \w : alphanumerics (str.isalnum) and the underscore
WordChar == LowerSet \cup UpperSet \cup Digit \cup {"_"}

Punct == {".", "!", "?", ",", ";", ":", "@", "-", "/", "%", "+", "=", "&", "#", "(", ")"}

\* U+00A8 and U+2120: neither \w nor \s, unchanged by lower and upper
Symbol == {"diaeresis", "service_mark"}

\* U+0301 and U+0308
CombiningMarks == {"comb_acute", "comb_diaeresis"}

Char == WordChar \cup Space \cup Punct \cup Symbol \cup CombiningMarks

\* str.lower() on one character
LowerChar(c) ==
    IF c \in UpperSet
    THEN LowerSeq[CHOOSE i \in DOMAIN UpperSeq : UpperSeq[i] = c]
    ELSE c

\* str.lower()
Lower(text) == [ i \in DOMAIN text |-> LowerChar(text[i]) ]

\* str.upper() on one character (used by re.IGNORECASE literals)
UpperChar(c) ==
    IF c \in LowerSet
    THEN UpperSeq[CHOOSE i \in DOMAIN LowerSeq : LowerSeq[i] = c]
    ELSE c

SetMax(S) == CHOOSE m \in S : \A n \in S : n <= m

SetMin(S) == CHOOSE m \in S : \A n \in S : m <= n

\* F(x), x being evaluated before F is applied to it
Bind(x, F(_)) == CHOOSE y \in { F(v) : v \in { x } } : TRUE

\* the sequence a function over 1..n is, every element evaluated once
AsTuple(f) == f \o << >>

\* range(1, n + 1)
Indices(n) == [ i \in 1..n |-> i ]

RECURSIVE ConcatRange(_, _, _)

\* seqs[lo] \o ... \o seqs[hi], the halves of the range joined
ConcatRange(seqs, lo, hi) ==
    IF lo > hi THEN << >>
    ELSE IF lo = hi THEN seqs[lo]
    ELSE ConcatRange(seqs, lo, (lo + hi) \div 2) \o ConcatRange(seqs, (lo + hi) \div 2 + 1, hi)

\* "".join(seqs)
ConcatAll(seqs) == ConcatRange(seqs, 1, Len(seqs))

RECURSIVE ScanIn(_, _, _, _)

\* the positions of lo..hi a left-to-right scan stops at: it enters the
\* range at e >= lo and goes on from each position pos at next[pos] > pos;
\* the scan of the upper half starts where that of the lower half left
ScanIn(next, lo, hi, e) ==
    IF e > hi THEN << >>
    ELSE IF lo = hi THEN << lo >>
    ELSE LET mid  == (lo + hi) \div 2
             left == ScanIn(next, lo, mid, e)
             out  == IF left = << >> THEN e ELSE next[left[Len(left)]]
         IN  left \o ScanIn(next, mid + 1, hi, out)

\* the positions a scan from position 1 stops at
Scan(next) == ScanIn(next, 1, Len(next), 1)

\* ------------------------------------------------------------------------
\* Regular expressions: a pattern is a sequence of items, matched by a
\* backtracking, leftmost, greedy matcher as re does.
\*   Cls(S, lo, hi)  a character of S repeated lo..hi times, greedy
\*   WordB           \b
\*   Alt(<<p1,..>>)  (?:p1|p2|...), alternatives tried in order
\* ------------------------------------------------------------------------

\* [S]{lo,hi}
Cls(S, lo, hi) == [k |-> "cls", s |-> S, lo |-> lo, hi |-> hi, many |-> FALSE, alts |-> << >>]

\* [S]{lo,} : no upper limit on the repetition (+ is lo = 1, * is lo = 0)
ClsMany(S, lo) == [k |-> "cls", s |-> S, lo |-> lo, hi |-> lo, many |-> TRUE, alts |-> << >>]

WordB == [k |-> "b", s |-> {}, lo |-> 0, hi |-> 0, many |-> FALSE, alts |-> << >>]

Alt(alts) == [k |-> "alt", s |-> {}, lo |-> 0, hi |-> 0, many |-> FALSE, alts |-> alts]

\* one given character
Ch(c) == Cls({c}, 1, 1)

\* a literal string, one item per character
Lit(str) == [ i \in DOMAIN str |-> Cls({str[i]}, 1, 1) ]

\* a literal string under re.IGNORECASE
LitIC(str) == [ i \in DOMAIN str |-> Cls({LowerChar(str[i]), UpperChar(str[i])}, 1, 1) ]

\* (?:p)?
Opt(p) == Alt(<< p, << >> >>)

\* is position pos (1..Len+1) of text at a word boundary
IsWordBoundary(text, pos) ==
    LET before == pos > 1 /\ text[pos - 1] \in WordChar
        after  == pos <= Len(text) /\ text[pos] \in WordChar
    IN  before # after

\* the longest run of characters of S starting at pos, at most hi long
\* unless the repetition has no upper limit
RunLength(text, S, pos, hi, many) ==
    LET last  == IF many \/ pos + hi - 1 > Len(text) THEN Len(text) ELSE pos + hi - 1
        stops == { j \in pos..last : text[j] \notin S }
    IN  IF stops = {} THEN last + 1 - pos ELSE SetMin(stops) - pos

\* an item that takes exactly one character, so that nothing is left to retry
OneChar(h) == h.k = "cls" /\ ~h.many /\ h.lo = 1 /\ h.hi = 1

\* the number of leading items of p that take exactly one character each
LiteralRun(p) ==
    LET others == { i \in DOMAIN p : ~OneChar(p[i]) }
    IN  IF others = {} THEN Len(p) ELSE SetMin(others) - 1

RECURSIVE MatchAt(_, _, _), TryRepeat(_, _, _, _, _)

\* alternation: the first alternative after which the rest matches
TryAlt(text, alts, r, pos) ==
    LET matching == { i \in DOMAIN alts : MatchAt(text, alts[i] \o r, pos) # 0 }
    IN  IF matching = {} THEN 0 ELSE MatchAt(text, alts[SetMin(matching)] \o r, pos)

\* The position after the match of pattern p at pos, 0 when p does not match
\* there.  The leading one-character items are matched as one literal.
MatchAt(text, p, pos) ==
    IF p = << >> THEN pos
    ELSE IF OneChar(p[1])
    THEN LET n == LiteralRun(p)
         IN  IF pos + n - 1 <= Len(text) /\ \A j \in 1..n : text[pos + j - 1] \in p[j].s
             THEN MatchAt(text, SubSeq(p, n + 1, Len(p)), pos + n)
             ELSE 0
    ELSE LET h == Head(p)
             r == Tail(p)
         IN  CASE h.k = "b"   -> IF IsWordBoundary(text, pos) THEN MatchAt(text, r, pos) ELSE 0
               [] h.k = "cls" -> TryRepeat(text, r, pos, RunLength(text, h.s, pos, h.hi, h.many), h.lo)
               [] h.k = "alt" -> TryAlt(text, h.alts, r, pos)

\* greedy repetition: the longest count first, backing off down to lo
TryRepeat(text, r, pos, n, lo) ==
    IF n < lo THEN 0
    ELSE LET e == MatchAt(text, r, pos + n)
         IN  IF e # 0 THEN e ELSE TryRepeat(text, r, pos, n - 1, lo)

\* the position after the match that starts at each position, 0 for none
MatchEnds(text, p) == [ pos \in 1..Len(text) |-> MatchAt(text, p, pos) ] \o << >>

\* where the scan goes on from each position: after the match that starts
\* there, one position further when there is none or an empty one
ScanNext(ends) == AsTuple([ pos \in DOMAIN ends |-> IF ends[pos] = 0 \/ ends[pos] = pos THEN pos + 1 ELSE ends[pos] ])

\* Pattern.findall(text) for a pattern without capturing groups: the
\* non-overlapping matches, scanned left to right.
FindAll(text, p) ==
    LET ends  == MatchEnds(text, p)
        found == SelectSeq(Scan(ScanNext(ends)), LAMBDA pos : ends[pos] # 0)
    IN  IF \A pos \in DOMAIN ends : ends[pos] = 0 THEN << >>
        ELSE [ k \in DOMAIN found |-> SubSeq(text, found[k], ends[found[k]] - 1) ]

\* ------------------------------------------------------------------------
\* The pattern lists of the concrete extractors
\* ------------------------------------------------------------------------

\* r"\b[A-Za-z0-9._%+-]+@[A-Za-z0-9.-]+\.[A-Za-z]{2,}\b"
EmailPatterns ==
    << << WordB,
          ClsMany(AsciiAlpha \cup Digit \cup {".", "_", "%", "+", "-"}, 1),
          Ch("@"),
          ClsMany(AsciiAlpha \cup Digit \cup {".", "-"}, 1),
          Ch("."),
          ClsMany(AsciiAlpha, 2),
          WordB >> >>

\* [-\w./?%&=+#]
UrlChar == WordChar \cup {"-", ".", "/", "?", "%", "&", "=", "+", "#"}

\* (?:[-\w./?%&=+#]|(?:%[\da-fA-F]{2}))+ ends each pattern: the first
\* alternative takes every character the second could start with ("%"), so
\* the group matches the longest run of UrlChar.
UrlTail == << ClsMany(UrlChar, 1) >>

URLPatterns ==
    << Lit(<<"h","t","t","p">>) \o << Cls({"s"}, 0, 1) >> \o Lit(<<":","/","/">>) \o UrlTail,
       Lit(<<"f","t","p",":","/","/">>) \o UrlTail,
       Lit(<<"w","w","w",".">>) \o UrlTail >>

MonthsTitle ==
    << <<"J","a","n">>, <<"F","e","b">>, <<"M","a","r">>, <<"A","p","r">>,
       <<"M","a","y">>, <<"J","u","n">>, <<"J","u","l">>, <<"A","u","g">>,
       <<"S","e","p">>, <<"O","c","t">>, <<"N","o","v">>, <<"D","e","c">> >>

\* (?:Jan|Feb|...|Dec)
MonthAltTitle == Alt([ i \in DOMAIN MonthsTitle |-> Lit(MonthsTitle[i]) ])

\* (?:jan|feb|...|dec)
MonthAltLower == Alt([ i \in DOMAIN MonthsTitle |-> Lit(Lower(MonthsTitle[i])) ])

DatePatterns ==
    << << Cls(Digit, 4, 4), Ch("-"), Cls(Digit, 2, 2), Ch("-"), Cls(Digit, 2, 2) >>,
       << Cls(Digit, 2, 2), Ch("/"), Cls(Digit, 2, 2), Ch("/"), Cls(Digit, 4, 4) >>,
       << Cls(Digit, 2, 2), Ch("-"), Cls(Digit, 2, 2), Ch("-"), Cls(Digit, 4, 4) >>,
       << Cls(Digit, 1, 2), Cls(Space, 1, 1), MonthAltTitle, Cls(Space, 1, 1), Cls(Digit, 4, 4) >>,
       << Cls(Digit, 1, 2), Ch("-"), MonthAltTitle, Ch("-"), Cls(Digit, 4, 4) >>,
       << Cls(Digit, 1, 2), Cls(Space, 1, 1), MonthAltLower, Cls(Space, 1, 1), Cls(Digit, 4, 4) >>,
       << Cls(Digit, 1, 2), Ch("-"), MonthAltLower, Ch("-"), Cls(Digit, 4, 4) >> >>

\* ------------------------------------------------------------------------
\* RegexExtractor
\* ------------------------------------------------------------------------

\* list(dict.fromkeys(xs)): every value kept at its first occurrence
Dedup(xs) ==
    LET first == SelectSeq(Indices(Len(xs)), LAMBDA i : \A j \in 1..(i - 1) : xs[j] # xs[i])
    IN  [ k \in DOMAIN first |-> xs[first[k]] ]

\* a loop that puts the matches of a later pattern before those of an earlier one
ExtendAll_LaterPatternsFirst(patterns, text, i) ==
    ConcatAll([ k \in 1..(Len(patterns) + 1 - i) |-> FindAll(text, patterns[Len(patterns) + 1 - k]) ])

\* the loop of extract from its i-th pattern on:
\* results.extend(pattern.findall(text)) per pattern
ExtendAll(patterns, text, i) ==
    ConcatAll([ k \in 1..(Len(patterns) + 1 - i) |-> FindAll(text, patterns[i + k - 1]) ])

\* RegexExtractor.extract(text, unique_occurrences)
Extract(patterns, text, unique_occurrences) ==
    IF text = << >> THEN << >>
    ELSE LET results == ExtendAll(patterns, text, 1)
         IN  IF unique_occurrences THEN Dedup(results) ELSE results

\* re.compile on the pattern sources a caller passes: the compiled pattern,
\* re.error for a source that is no regular expression, OverflowError for
\* a repetition count beyond the limit of the implementation
ReCompile(src) ==
    CASE src = "\\d+"           -> [raised |-> "", items |-> << ClsMany(Digit, 1) >>]
      [] src = "[a-z]+"         -> [raised |-> "", items |-> << ClsMany(AsciiLower, 1) >>]
      [] src = "[invalid(regex" -> [raised |-> "re.error", items |-> << >>]
      [] src = "a{4294967296}"  -> [raised |-> "OverflowError", items |-> << >>]

\* add_patterns that skips a source it cannot compile and goes on
RECURSIVE AddPatternsFrom_SkipInvalid(_, _, _)

AddPatternsFrom_SkipInvalid(held, patterns, i) ==
    IF i > Len(patterns) THEN [raised |-> "", held |-> held]
    ELSE LET compiled == ReCompile(patterns[i])
         IN  IF compiled.raised = ""
             THEN AddPatternsFrom_SkipInvalid(Append(held, compiled.items), patterns, i + 1)
             ELSE AddPatternsFrom_SkipInvalid(held, patterns, i + 1)

\* add_patterns that, when it cannot compile its i-th source, takes back
\* the i - 1 patterns it appended
RECURSIVE AddPatternsFrom_AllOrNothing(_, _, _)

AddPatternsFrom_AllOrNothing(held, patterns, i) ==
    IF i > Len(patterns) THEN [raised |-> "", held |-> held]
    ELSE LET compiled == ReCompile(patterns[i])
             before   == SubSeq(held, 1, Len(held) - (i - 1))
         IN  IF compiled.raised = ""
             THEN AddPatternsFrom_AllOrNothing(Append(held, compiled.items), patterns, i + 1)
             ELSE IF compiled.raised = "re.error"
             THEN [raised |-> "ValueError", held |-> before]
             ELSE [raised |-> compiled.raised, held |-> before]

RECURSIVE AddPatternsFrom(_, _, _)

\* the loop of RegexExtractor.add_patterns from its i-th pattern on: each
\* compiled pattern is appended at once; re.error becomes ValueError, any
\* other exception of re.compile propagates; either ends the loop
AddPatternsFrom(held, patterns, i) ==
    IF i > Len(patterns) THEN [raised |-> "", held |-> held]
    ELSE LET compiled == ReCompile(patterns[i])
         IN  IF compiled.raised = ""
             THEN AddPatternsFrom(Append(held, compiled.items), patterns, i + 1)
             ELSE IF compiled.raised = "re.error"
             THEN [raised |-> "ValueError", held |-> held]
             ELSE [raised |-> compiled.raised, held |-> held]

\* RegexExtractor.add_patterns(patterns) on a list that holds held
AddPatterns(held, patterns) == AddPatternsFrom(held, patterns, 1)

\* ------------------------------------------------------------------------
\* Cleaner
\* ------------------------------------------------------------------------

\* [^\s]
NonSpace == Char \ Space

\* _email_re
CleanerEmailRe ==
    << WordB,
       ClsMany(AsciiAlpha \cup Digit \cup {".", "_", "%", "+", "-"}, 1),
       Ch("@"),
       ClsMany(AsciiAlpha \cup Digit \cup {".", "-"}, 1),
       Ch("."),
       ClsMany(AsciiAlpha, 2),
       WordB >>

\* _url_http_re
CleanerUrlHttpRe ==
    << WordB >> \o Lit(<<"h","t","t","p">>) \o << Cls({"s"}, 0, 1) >> \o Lit(<<":","/","/">>)
        \o << ClsMany(NonSpace, 1), WordB >>

\* _url_www_re
CleanerUrlWwwRe ==
    << WordB >> \o Lit(<<"w","w","w",".">>)
        \o << ClsMany(AsciiAlpha \cup Digit \cup {".", "-"}, 1),
              Ch("."),
              ClsMany(AsciiAlpha, 2),
              Opt(<< Ch("/"), ClsMany(NonSpace, 0) >>),
              WordB >>

\* _percent_re
CleanerPercentRe ==
    << WordB, ClsMany(Digit, 1), Opt(<< Cls({".", ","}, 1, 1), ClsMany(Digit, 1) >>), Ch("%"), WordB >>

\* _date_ymd_sep_re
CleanerDateYmdRe ==
    << WordB, Cls(Digit, 4, 4), Cls({"-", "/", "."}, 1, 1), Cls(Digit, 2, 2),
       Cls({"-", "/", "."}, 1, 1), Cls(Digit, 2, 2), WordB >>

\* _date_dmy_slash_re
CleanerDateDmyRe ==
    << WordB, Cls(Digit, 2, 2), Ch("/"), Cls(Digit, 2, 2), Ch("/"), Cls(Digit, 4, 4), WordB >>

\* the alternatives of _months: the short name and the rest of the long one
MonthNames ==
    << << <<"J","a","n">>, <<"u","a","r","y">> >>,
       << <<"F","e","b">>, <<"r","u","a","r","y">> >>,
       << <<"M","a","r">>, <<"c","h">> >>,
       << <<"A","p","r">>, <<"i","l">> >>,
       << <<"M","a","y">>, << >> >>,
       << <<"J","u","n">>, <<"e">> >>,
       << <<"J","u","l">>, <<"y">> >>,
       << <<"A","u","g">>, <<"u","s","t">> >>,
       << <<"S","e","p">>, <<"t","e","m","b","e","r">> >>,
       << <<"O","c","t">>, <<"o","b","e","r">> >>,
       << <<"N","o","v">>, <<"e","m","b","e","r">> >>,
       << <<"D","e","c">>, <<"e","m","b","e","r">> >> >>

\* (?:Jan(?:uary)?|Feb(?:ruary)?|...) under re.IGNORECASE
CleanerMonths ==
    Alt([ i \in DOMAIN MonthNames |->
            IF MonthNames[i][2] = << >>
            THEN LitIC(MonthNames[i][1])
            ELSE LitIC(MonthNames[i][1]) \o << Opt(LitIC(MonthNames[i][2])) >> ])

\* _date_month_name_long_re
CleanerDateLongRe ==
    << WordB, CleanerMonths, ClsMany(Space, 1), Cls(Digit, 1, 2),
       Alt(<< LitIC(<<"s","t">>), LitIC(<<"n","d">>), LitIC(<<"r","d">>), LitIC(<<"t","h">>), << >> >>),
       Cls({","}, 0, 1), ClsMany(Space, 1), Cls(Digit, 4, 4), WordB >>

\* _date_month_name_short_re
CleanerDateShortRe ==
    << WordB, Cls(Digit, 1, 2), ClsMany(Space, 1), CleanerMonths, ClsMany(Space, 1),
       Cls(Digit, 4, 4), WordB >>

\* the protection passes of clean_text, in the order they are applied
ProtectPasses ==
    << CleanerEmailRe, CleanerUrlHttpRe, CleanerUrlWwwRe, CleanerPercentRe,
       CleanerDateYmdRe, CleanerDateDmyRe, CleanerDateLongRe, CleanerDateShortRe >>

\* str(n) for 0 <= n < 100
Decimal(n) ==
    LET D == <<"0","1","2","3","4","5","6","7","8","9">>
    IN  IF n < 10 THEN << D[n + 1] >> ELSE << D[(n \div 10) + 1], D[(n % 10) + 1] >>

\* f"__PROT{i}__"
Placeholder(i) == <<"_","_","P","R","O","T">> \o Decimal(i) \o <<"_","_">>

\* pattern.sub(protect, text): each match is appended to the protected list
\* and replaced by the placeholder of its index (Cleaner._protect)
SubProtect(text, p, protected) ==
    LET ends         == MatchEnds(text, p)
        matched(pos) == ends[pos] # 0 /\ ends[pos] # pos
        stops        == Scan(ScanNext(ends))
        found        == SelectSeq(stops, matched)
        index(pos)   == Len(protected) + Cardinality({ k \in DOMAIN found : found[k] < pos })
    IN  IF \A pos \in DOMAIN ends : ~matched(pos) THEN [text |-> text, protected |-> protected]
        ELSE [text      |-> ConcatAll([ k \in DOMAIN stops |->
                                          IF matched(stops[k]) THEN Placeholder(index(stops[k]))
                                          ELSE << text[stops[k]] >> ]),
              protected |-> protected \o [ k \in DOMAIN found |-> SubSeq(text, found[k], ends[found[k]] - 1) ]]

RECURSIVE ProtectIn(_, _, _)

\* the passes lo..hi applied to the text and the protected list of r, each
\* over the previous one's output: the upper half after the lower half
ProtectIn(r, lo, hi) ==
    IF lo > hi THEN r
    ELSE IF lo = hi THEN SubProtect(r.text, ProtectPasses[lo], r.protected)
    ELSE Bind(ProtectIn(r, lo, (lo + hi) \div 2),
              LAMBDA half : ProtectIn(half, (lo + hi) \div 2 + 1, hi))

\* lines 45-52 of clean_text from its i-th pass on
ProtectAll(text, protected, i) ==
    ProtectIn([text |-> text, protected |-> protected], i, Len(ProtectPasses))

\* _punct_re.sub(" ", text): every character outside \w and \s becomes a space
SubPunct(text) == [ i \in DOMAIN text |-> IF text[i] \in WordChar \/ text[i] \in Space THEN text[i] ELSE " " ]

\* re.sub(r"\s+", " ", text): a run of whitespace keeps its first position, as a blank
CollapseSpaces(text) ==
    LET kept == SelectSeq(Indices(Len(text)),
                          LAMBDA i : text[i] \notin Space \/ i = 1 \/ text[i - 1] \notin Space)
    IN  [ k \in DOMAIN kept |-> IF text[kept[k]] \in Space THEN " " ELSE text[kept[k]] ]

\* str.strip()
Strip(text) ==
    LET keep == { i \in DOMAIN text : text[i] \notin Space }
    IN  IF keep = {} THEN << >> ELSE SubSeq(text, SetMin(keep), SetMax(keep))

IsPrefixAt(text, pos, w) ==
    /\ pos + Len(w) - 1 <= Len(text)
    /\ \A j \in 1..Len(w) : text[pos + j - 1] = w[j]

\* str.replace(old, new) for a non-empty old: the occurrences of old,
\* scanned left to right without overlap
Replace(text, old, new) ==
    LET hit(pos) == IsPrefixAt(text, pos, old)
        stops    == Scan(AsTuple([ pos \in DOMAIN text |-> IF hit(pos) THEN pos + Len(old) ELSE pos + 1 ]))
    IN  ConcatAll([ k \in DOMAIN stops |-> IF hit(stops[k]) THEN new ELSE << text[stops[k]] >> ])

RECURSIVE Restore(_, _, _)

\* lines 57-58 of clean_text: the placeholders are replaced in index order
Restore(text, protected, i) ==
    IF i > Len(protected) THEN text
    ELSE Bind(Replace(text, Placeholder(i - 1), protected[i]),
              LAMBDA replaced : Restore(replaced, protected, i + 1))

\* Cleaner.clean_text
CleanText(text) ==
    LET p       == ProtectAll(text, << >>, 1)
        cleaned == Strip(CollapseSpaces(SubPunct(p.text)))
    IN  Restore(cleaned, p.protected, 1)

\* ------------------------------------------------------------------------
\* Normalizer, Tokenizer, TransformerPipeline
\* ------------------------------------------------------------------------

\* unicodedata.normalize("NFKD", c) of one character
NFKDChar(c) ==
    CASE c = "e_acute"      -> << "e", "comb_acute" >>
      [] c = "E_acute"      -> << "E", "comb_acute" >>
      [] c = "diaeresis"    -> << " ", "comb_diaeresis" >>
      [] c = "service_mark" -> << "S", "M" >>
      [] c = "nbsp"         -> << " " >>
      [] OTHER              -> << c >>

\* unicodedata.normalize("NFKD", text)
NFKD(text) == ConcatAll([ i \in DOMAIN text |-> NFKDChar(text[i]) ])

\* unicodedata.combining(c) # 0
Combining(c) == c \in CombiningMarks

\* Normalizer.normalize_text
NormalizeText(text) ==
    LET lowered    == Lower(Strip(text))
        decomposed == NFKD(lowered)
        kept       == SelectSeq(decomposed, LAMBDA c : ~Combining(c))
    IN  CollapseSpaces(kept)

\* str.split(): the maximal runs of non-whitespace characters
Split(text) ==
    LET starts == SelectSeq(Indices(Len(text)),
                            LAMBDA i : text[i] \in NonSpace /\ (i = 1 \/ text[i - 1] \in Space))
    IN  [ k \in DOMAIN starts |->
            SubSeq(text, starts[k], starts[k] + RunLength(text, NonSpace, starts[k], 0, TRUE) - 1) ]

\* a tokenizer that splits at each blank only: text.split(" ")
TokenizeText_SplitOnBlank(text) ==
    LET blanks == SelectSeq(Indices(Len(text)), LAMBDA i : text[i] = " ")
    IN  [ k \in 1..(Len(blanks) + 1) |->
            SubSeq(text,
                   IF k = 1 THEN 1 ELSE blanks[k - 1] + 1,
                   IF k > Len(blanks) THEN Len(text) ELSE blanks[k] - 1) ]

\* Tokenizer.tokenize_text (a text is always a str here)
TokenizeText(text) == Split(text)

\* a pipeline that normalizes before it cleans
Transform_NormalizeBeforeClean(hasCleaner, hasNormalizer, text) ==
    Bind(IF hasNormalizer THEN NormalizeText(text) ELSE text, LAMBDA normalized :
    Bind(IF hasCleaner THEN CleanText(normalized) ELSE normalized, LAMBDA cleaned :
         TokenizeText(cleaned)))

\* TransformerPipeline.transform for a pipeline with or without each stage
Transform(hasCleaner, hasNormalizer, text) ==
    Bind(IF hasCleaner THEN CleanText(text) ELSE text, LAMBDA cleaned :
    Bind(IF hasNormalizer THEN NormalizeText(cleaned) ELSE cleaned, LAMBDA normalized :
         TokenizeText(normalized)))

\* ------------------------------------------------------------------------
\* TextDocument
\* ------------------------------------------------------------------------

\* r"\w+"
WordRunRe == << ClsMany(WordChar, 1) >>

\* the tokenization of the tokens property: re.findall(r"\w+", content.lower())
ComputeTokens(text) == FindAll(Lower(text), WordRunRe)

\* an emptiness test that does not strip
IsEmpty_NoStrip(text) == text = << >>

\* TextDocument.is_empty
IsEmpty(text) == Strip(text) = << >>

\* ------------------------------------------------------------------------
\* Analyzers.  A float is kept as a fraction until it is rounded; a value
\* rounded to two decimals is kept in hundredths (0.33 is 33).
\* ------------------------------------------------------------------------

\* round(n / d, 2) in hundredths, d > 0: the nearest hundredth, an exact tie
\* going to the even one
Round2(n, d) ==
    LET a  == IF n < 0 THEN 0 - n ELSE n
        q  == (100 * a) \div d
        r  == (100 * a) % d
        m  == IF 2 * r > d \/ (2 * r = d /\ q % 2 = 1) THEN q + 1 ELSE q
    IN  IF n < 0 THEN 0 - m ELSE m

Count(xs, x) == Cardinality({ i \in DOMAIN xs : xs[i] = x })

\* a counter that records each value once, whatever its occurrences
Counter_OnePerValue(xs) == LET keys == Dedup(xs) IN [ i \in DOMAIN keys |-> << keys[i], 1 >> ]

\* collections.Counter(xs): the pairs <<value, count>> in first-occurrence order
Counter(xs) == LET keys == Dedup(xs) IN [ i \in DOMAIN keys |-> << keys[i], Count(xs, keys[i]) >> ]

\* the first n entries in insertion order, whatever their counts
MostCommon_InsertionOrder(counter, n) ==
    [ r \in 1..(IF n < Len(counter) THEN n ELSE Len(counter)) |-> counter[r] ]

\* Counter.most_common(n): by descending count, equal counts in insertion order
MostCommon(counter, n) ==
    LET before(j, i) == counter[j][2] > counter[i][2] \/ (counter[j][2] = counter[i][2] /\ j < i)
        rank(i)      == Cardinality({ j \in DOMAIN counter : before(j, i) }) + 1
        size         == SetMin({n, Len(counter)})
    IN  [ r \in 1..size |-> counter[CHOOSE i \in DOMAIN counter : rank(i) = r] ]

\* the argument of most_common in FrequencyAnalyzer.analyze
TopWordsLimit == 10

\* FrequencyAnalyzer._empty_result
FrequencyEmptyResult ==
    [total_words |-> 0, top_words |-> << >>, word_counts |-> << >>, most_common_length |-> 0]

\* FrequencyAnalyzer.analyze, given document.tokens; a dict is the sequence
\* of its items in insertion order
FrequencyAnalyze(toks) ==
    IF toks = << >> THEN FrequencyEmptyResult
    ELSE LET word_counts   == Counter(toks)
             length_counts == Counter([ i \in DOMAIN toks |-> Len(toks[i]) ])
             most_common   == MostCommon(length_counts, 1)
         IN  [total_words        |-> Len(toks),
              top_words          |-> MostCommon(word_counts, TopWordsLimit),
              word_counts        |-> word_counts,
              most_common_length |-> IF most_common # << >> THEN most_common[1][1] ELSE 0]

\* stopwords.json as DataLoader.load_stopwords returns it: the languages in
\* file order and the stopword set of each
StopwordLangs == << "en", "es" >>

Stopwords ==
    [en |-> { <<"t","h","e">>, <<"a">>, <<"i","s">>, <<"o","f">>, <<"t","o">>, <<"i","n">> },
     es |-> { <<"e","l">>, <<"l","a">>, <<"e","s">> }]

\* a detector that scores a language by its number of stopwords among the
\* tokens, not divided by the size of its stopword list
LanguageDetect_ByHitCount(toks) ==
    LET words   == Range(toks)
        hits(l) == Cardinality(words \cap Stopwords[l])
        best    == StopwordLangs[SetMin({ i \in DOMAIN StopwordLangs :
                       \A j \in DOMAIN StopwordLangs : hits(StopwordLangs[j]) <= hits(StopwordLangs[i]) })]
    IN  IF hits(best) = 0 THEN [language |-> "unknown", confidence |-> 0]
        ELSE [language |-> best, confidence |-> Round2(hits(best), Cardinality(Stopwords[best]))]

\* LanguageDetector.analyze, given document.tokens
LanguageDetect(toks) ==
    LET words == Range(toks)
    IN  IF words = {} THEN [language |-> "unknown", confidence |-> 0]
        ELSE LET hits(l)  == Cardinality(words \cap Stopwords[l])
                 size(l)  == Cardinality(Stopwords[l])
                 \* scores[a] < scores[b], a score being hits/size or 0.0 for an empty list
                 less(a, b) == IF size(b) = 0 THEN FALSE
                               ELSE IF size(a) = 0 THEN hits(b) > 0
                               ELSE hits(a) * size(b) < hits(b) * size(a)
                 \* max(scores, key=...): the first language no other one beats
                 best     == StopwordLangs[SetMin({ i \in DOMAIN StopwordLangs :
                                 \A j \in DOMAIN StopwordLangs : ~less(StopwordLangs[i], StopwordLangs[j]) })]
                 zero     == size(best) = 0 \/ hits(best) = 0
             IN  [language   |-> IF zero THEN "unknown" ELSE best,
                  confidence |-> IF zero THEN 0 ELSE Round2(hits(best), size(best))]

\* sentiment_words.json as DataLoader.load_sentiment_words returns it
PosWords == { <<"g","o","o","d">>, <<"g","r","e","a","t">> }

NegWords == { <<"b","a","d">> }

\* SentimentAnalyzer._get_label for the score num/den (den > 0): score > 0.1,
\* score < -0.1
GetLabel(num, den) ==
    IF 10 * num > den THEN "positive"
    ELSE IF 10 * num < 0 - den THEN "negative"
    ELSE "neutral"

\* SentimentAnalyzer._empty_result
SentimentEmptyResult == [sentiment |-> "neutral", score |-> 0, pos_count |-> 0, neg_count |-> 0]

\* an analyzer that counts each lexicon word once, however often it occurs
SentimentAnalyze_DistinctWords(toks) ==
    LET words     == Range(toks)
        pos_count == Cardinality(words \cap PosWords)
        neg_count == Cardinality(words \cap NegWords)
        total     == pos_count + neg_count
    IN  [sentiment |-> IF total > 0 THEN GetLabel(pos_count - neg_count, total) ELSE GetLabel(0, 1),
         score     |-> IF total > 0 THEN Round2(pos_count - neg_count, total) ELSE 0,
         pos_count |-> pos_count,
         neg_count |-> neg_count]

\* SentimentAnalyzer.analyze, given document.tokens
SentimentAnalyze(toks) ==
    IF toks = << >> THEN SentimentEmptyResult
    ELSE LET pos_count == Cardinality({ i \in DOMAIN toks : toks[i] \in PosWords })
             neg_count == Cardinality({ i \in DOMAIN toks : toks[i] \in NegWords })
             total     == pos_count + neg_count
         IN  [sentiment |-> IF total > 0 THEN GetLabel(pos_count - neg_count, total)
                            ELSE GetLabel(0, 1),
              score     |-> IF total > 0 THEN Round2(pos_count - neg_count, total) ELSE 0,
              pos_count |-> pos_count,
              neg_count |-> neg_count]

\* [.!?]
Terminator == {".", "!", "?"}

\* re.split(r"[.!?]+", text): the pieces between the runs of terminators
SplitTerminators(text) ==
    LET seps     == SelectSeq(Indices(Len(text)),
                              LAMBDA i : text[i] \in Terminator /\ (i = 1 \/ text[i - 1] \notin Terminator))
        after(k) == seps[k] + RunLength(text, Terminator, seps[k], 0, TRUE)
    IN  [ k \in 1..(Len(seps) + 1) |->
            SubSeq(text,
                   IF k = 1 THEN 1 ELSE after(k - 1),
                   IF k > Len(seps) THEN Len(text) ELSE seps[k] - 1) ]

\* ReadabilityAnalyzer._extract_sentences
ExtractSentences(text) == SelectSeq(SplitTerminators(text), LAMBDA x : Strip(x) # << >>)

\* What ReadabilityAnalyzer.__init__ keeps in self._thresholds: the value of
\* DataLoader.load_readability_thresholds, which is json.load's dict of
\* readability_thresholds.json (thresholds in hundredths).
LoadReadabilityThresholds ==
    [type  |-> "dict",
     items |-> [en       |-> [sent_high |-> 2500, sent_med |-> 1500, word_high |-> 600, word_med |-> 500],
                es       |-> [sent_high |-> 3000, sent_med |-> 2000, word_high |-> 650, word_med |-> 550],
                default  |-> [sent_high |-> 2500, sent_med |-> 1500, word_high |-> 600, word_med |-> 500]]]

\* hasattr(obj, name): the keys of a dict are items, not attributes; the
\* fields of a ReadabilityConfig are attributes
HasAttr(obj, name) == obj.type = "ReadabilityConfig" /\ name \in DOMAIN obj.items

\* ReadabilityAnalyzer._get_document_language: the stored result of
\* "language_detector" if there is one
GetDocumentLanguage(results) ==
    IF "language_detector" \in DOMAIN results
    THEN results["language_detector"].language
    ELSE "unknown"

\* ReadabilityAnalyzer._calculate_complexity for the averages sn/sd and
\* wn/wd.  getattr(self._thresholds, language, self._thresholds.default)
\* evaluates its default argument first.
CalculateComplexity(sn, sd, wn, wd, language) ==
    LET obj == LoadReadabilityThresholds
    IN  IF ~HasAttr(obj, "default") THEN [raised |-> "AttributeError", value |-> ""]
        ELSE LET t == IF HasAttr(obj, language) THEN obj.items[language] ELSE obj.items["default"]
             IN  [raised |-> "",
                  value  |-> IF 100 * sn > t.sent_high * sd \/ 100 * wn > t.word_high * wd THEN "high"
                             ELSE IF 100 * sn > t.sent_med * sd \/ 100 * wn > t.word_med * wd THEN "medium"
                             ELSE "low"]

\* ReadabilityAnalyzer._empty_result
ReadabilityEmptyResult == [avg_sentence_length |-> 0, avg_word_length |-> 0, complexity |-> "unknown"]

RECURSIVE SumLenIn(_, _, _)

\* len(toks[lo]) + ... + len(toks[hi]), the sums of the halves added
SumLenIn(toks, lo, hi) ==
    IF lo > hi THEN 0
    ELSE IF lo = hi THEN Len(toks[lo])
    ELSE SumLenIn(toks, lo, (lo + hi) \div 2) + SumLenIn(toks, (lo + hi) \div 2 + 1, hi)

\* sum(len(t) for t in tokens)
SumLen(toks) == SumLenIn(toks, 1, Len(toks))

\* an analyzer without the test of line 43: it divides by the number of
\* sentences and of tokens whatever they are
ReadabilityAnalyze_Unguarded(text, toks, results) ==
    LET sentences == ExtractSentences(text)
    IN  IF toks = << >> \/ sentences = << >>
        THEN [raised |-> "ZeroDivisionError", value |-> << >>]
        ELSE [raised |-> "AttributeError", value |-> << >>]

\* ReadabilityAnalyzer.analyze, given document.content, document.tokens and
\* document.analysis_results
ReadabilityAnalyze(text, toks, results) ==
    LET sentences == ExtractSentences(text)
    IN  IF toks = << >> \/ sentences = << >>
        THEN [raised |-> "", value |-> ReadabilityEmptyResult]
        ELSE LET c == CalculateComplexity(Len(toks), Len(sentences), SumLen(toks), Len(toks),
                                          GetDocumentLanguage(results))
             IN  IF c.raised # "" THEN [raised |-> c.raised, value |-> << >>]
                 ELSE [raised |-> "",
                       value  |-> [avg_sentence_length |-> Round2(Len(toks), Len(sentences)),
                                   avg_word_length     |-> Round2(SumLen(toks), Len(toks)),
                                   complexity          |-> c.value]]

\* analyzer.analyze(document) for the analyzer of the given class name
RunAnalyzer(name, text, toks, results) ==
    CASE name = "FrequencyAnalyzer"   -> [raised |-> "", value |-> FrequencyAnalyze(toks)]
      [] name = "LanguageDetector"    -> [raised |-> "", value |-> LanguageDetect(toks)]
      [] name = "SentimentAnalyzer"   -> [raised |-> "", value |-> SentimentAnalyze(toks)]
      [] name = "ReadabilityAnalyzer" -> ReadabilityAnalyze(text, toks, results)

\* ------------------------------------------------------------------------
\* AnalyzerRunner and ExtractorRunner: construction
\* ------------------------------------------------------------------------

\* all_analyzers, in the order of the list in AnalyzerRunner.__init__
AllAnalyzers == << "FrequencyAnalyzer", "LanguageDetector", "SentimentAnalyzer", "ReadabilityAnalyzer" >>

\* An allow-list argument: None or a list of names.
NoneArg == [none |-> TRUE, list |-> << >>]

ListArg(l) == [none |-> FALSE, list |-> l]

\* the truth value of the argument: None and the empty list are false
Truthy(arg) == ~arg.none /\ arg.list # << >>

\* a selection that follows the allow-list instead of all_analyzers
ActiveAnalyzers_InListOrder(arg) ==
    IF Truthy(arg)
    THEN SelectSeq(arg.list, LAMBDA a : a \in Range(AllAnalyzers))
    ELSE AllAnalyzers

\* self.analyzers as AnalyzerRunner.__init__ sets it
ActiveAnalyzers(arg) ==
    IF Truthy(arg)
    THEN SelectSeq(AllAnalyzers, LAMBDA a : a \in Range(arg.list))
    ELSE AllAnalyzers

\* name_to_key of ExtractorRunner.__init__
NameToKey == [EmailExtractor |-> "email", URLExtractor |-> "url", DateExtractor |-> "date"]

\* the keys of all_extractors, in insertion order
AllExtractors == << "email", "url", "date" >>

\* a selection that falls back to all extractors when no name is known
ActiveExtractors_FallbackAll(arg) ==
    LET known == SelectSeq(arg.list, LAMBDA n : n \in DOMAIN NameToKey)
    IN  IF known # << >>
        THEN Dedup([ i \in DOMAIN known |-> NameToKey[known[i]] ])
        ELSE AllExtractors

\* the keys of self.extractors, in insertion order, as
\* ExtractorRunner.__init__ sets them
ActiveExtractors(arg) ==
    IF Truthy(arg)
    THEN LET known == SelectSeq(arg.list, LAMBDA n : n \in DOMAIN NameToKey)
         IN  Dedup([ i \in DOMAIN known |-> NameToKey[known[i]] ])
    ELSE AllExtractors

\* the pattern list of the extractor held under a key
PatternsOf(key) ==
    CASE key = "email" -> EmailPatterns
      [] key = "url"   -> URLPatterns
      [] key = "date"  -> DatePatterns

\* ------------------------------------------------------------------------
\* ExtractionResult and ExtractorRunner.extract_all
\* ------------------------------------------------------------------------

\* the fields of the ExtractionResult dataclass, each defaulting to []
ExtractionResultFields == {"email_matches", "url_matches", "date_matches"}

\* ExtractionResult(**kwargs): the generated __init__ takes the fields only
NewExtractionResult(kwargs) ==
    IF DOMAIN kwargs \subseteq ExtractionResultFields
    THEN [raised |-> "",
          value  |-> [ f \in ExtractionResultFields |-> IF f \in DOMAIN kwargs THEN kwargs[f] ELSE << >> ]]
    ELSE [raised |-> "TypeError", value |-> << >>]

\* The extractors extract_all invokes, in the order of its if statements.
InvokedExtractors(text, extractors) ==
    IF IsEmpty(text) THEN << >>
    ELSE SelectSeq(AllExtractors, LAMBDA k : k \in Range(extractors))

\* ExtractorRunner.extract_all(document, unique_occurrences)
ExtractAllOutcome(text, extractors, unique_occurrences) ==
    IF IsEmpty(text) THEN NewExtractionResult(<< >>)
    ELSE LET found(k) == IF k \in Range(extractors) THEN Extract(PatternsOf(k), text, FALSE) ELSE << >>
             final(k) == IF unique_occurrences THEN Dedup(found(k)) ELSE found(k)
         IN  NewExtractionResult([email_matches     |-> final("email"),
                                  url_matches       |-> final("url"),
                                  date_matches      |-> final("date"),
                                  active_extractors |-> extractors])

\* ------------------------------------------------------------------------
\* Bounds and inputs
\* ------------------------------------------------------------------------

\* a document's content is made of at most MaxFrags fragments
MaxFrags == 1

\* an allow-list holds at most MaxNames names
MaxNames == 2

\* the number of threads reading tokens of one document
NThreads == 2

Fragments ==
    { <<"a","@","b",".","c","o"," ","a","@","b",".","c","o"," ">>,
      <<"w","w","w",".","a",".","e","s"," ","1","-","j","a","n","-","2","0","2","6"," ">>,
      <<"E_acute","l"," ","i","s"," ","g","o","o","d","."," ">>,
      <<" ">> }

RECURSIVE TextsOf(_)

\* the concatenations of at most n fragments
TextsOf(n) ==
    IF n = 0 THEN { << >> }
    ELSE LET shorter == TextsOf(n - 1)
         IN  shorter \cup { t \o f : t \in shorter, f \in Fragments }

Contents == TextsOf(MaxFrags)

\* the texts a caller may assign to the content of a document it holds
Written == TextsOf(MaxFrags + 1)

RECURSIVE ListsOf(_, _)

\* the lists of at most n names of S
ListsOf(S, n) ==
    IF n = 0 THEN { << >> }
    ELSE LET shorter == ListsOf(S, n - 1)
         IN  shorter \cup { Append(l, x) : l \in shorter, x \in S }

\* the names a caller may pass: the class names and one that is none
AnalyzerNames == Range(AllAnalyzers) \cup {"WordCounter"}

ExtractorNames == DOMAIN NameToKey \cup {"PhoneExtractor"}

AnalyzerArgs == {NoneArg} \cup { ListArg(l) : l \in ListsOf(AnalyzerNames, MaxNames) }

ExtractorArgs == {NoneArg} \cup { ListArg(l) : l \in ListsOf(ExtractorNames, MaxNames) }

Threads == 1..NThreads

\* the number of documents given to one runner, and of calls made on them
NDocs == 2

NCalls == 2

\* the contents of the documents given to one runner
SharedTexts ==
    { << >>,
      <<"g","o","o","d"," ">>,
      <<"H","i"," ","a","@","b",".","c","o"," ">> }

\* the allow-lists the shared runner is constructed with
SharedAnalyzerArgs == { NoneArg, ListArg(<<"SentimentAnalyzer", "FrequencyAnalyzer">>) }

SharedExtractorArgs == { NoneArg }

\* a text passed to an extractor is at most MaxExtractFrags fragments long
MaxExtractFrags == 2

\* a caller passes at most MaxPatterns pattern sources in one list
MaxPatterns == 2

\* add_patterns is called while the list holds at most MaxHeld patterns
MaxHeld == 3

RECURSIVE ConcatsOf(_, _)

\* the concatenations of at most n members of F
ConcatsOf(F, n) ==
    IF n = 0 THEN { << >> }
    ELSE LET shorter == ConcatsOf(F, n - 1)
         IN  shorter \cup { t \o f : t \in shorter, f \in F }

ExtractFragments ==
    { <<"a","b"," ","1","2"," ","a","@","b",".","c","o"," ">>,
      <<"w","w","w",".","a",".","e","s"," ">>,
      <<"h","t","t","p",":","/","/","b",".","c","o"," ">>,
      <<"1","-","j","a","n","-","2","0","2","6"," ","2","0","2","6","-","0","1","-","0","1"," ">> }

ExtractTexts == ConcatsOf(ExtractFragments, MaxExtractFrags)

\* a text passed to a transformer is at most MaxTransformFrags fragments long
MaxTransformFrags == 2

TransformFragments ==
    { <<"H","i",","," ">>,
      <<"a","@","b",".","c","o","!"," ">>,
      <<"h","t","t","p",":","/","/","b",".","c","o","/","a","@","b",".","c","o"," ">>,
      <<"5","%","x",";"," ">>,
      <<"2","0","2","6","-","0","1","-","0","1","."," ">>,
      <<"E_acute","l","\t">>,
      <<"a","diaeresis">>,
      <<"service_mark">>,
      <<"nbsp","\n">> }

TransformTexts == ConcatsOf(TransformFragments, MaxTransformFrags)

\* the content of an analyzed document is at most MaxAnalyzeFrags fragments long
MaxAnalyzeFrags == 2

AnalyzeFragments ==
    { <<"t","h","e"," ","a"," ","i","s"," ","o","f"," ","t","o"," ","i","n"," ">>,
      <<"e","l"," ","l","a"," ","e","s"," ">>,
      <<"g","o","o","d"," ","g","r","e","a","t"," ","b","a","d"," ","b","a","d"," ">>,
      <<"b"," ","c"," ","d"," ","e"," ","f"," ","g"," ","h"," ","h"," ">>,
      <<"t","h","e"," ","a"," ","e","l"," ">>,
      <<"t","h","e"," ","a"," ","e","l"," ","l","a"," ">>,
      <<"G","o","o","d",","," ","x"," ">>,
      <<"b","a","d"," ">>,
      <<" ">> }

\* n copies of the text f
Repeated(f, n) == [ i \in 1..(n * Len(f)) |-> f[((i - 1) % Len(f)) + 1] ]

\* documents whose sentiment quotient, 3/29, lies between 0.1 and 0.105
NearThresholdTexts ==
    { Repeated(<<"g","o","o","d"," ">>, 16) \o Repeated(<<"b","a","d"," ">>, 13),
      Repeated(<<"b","a","d"," ">>, 16) \o Repeated(<<"g","o","o","d"," ">>, 13) }

AnalyzeTexts == ConcatsOf(AnalyzeFragments, MaxAnalyzeFrags) \cup NearThresholdTexts

\* the content of a document given to a runner is at most MaxRunnerFrags
\* fragments long
MaxRunnerFrags == 2

RunnerFragments ==
    { <<".",".",".">>,
      <<"diaeresis",","," ">>,
      <<" ">>,
      <<"g","o","o","d"," ","b","a","d","."," ">>,
      <<"H","i"," ">> }

RunnerTexts == ConcatsOf(RunnerFragments, MaxRunnerFrags)

\* the pattern sources a caller may pass
PatternSources == {"\\d+", "[a-z]+", "[invalid(regex", "a{4294967296}"}

PatternLists == ListsOf(PatternSources, MaxPatterns)

\* ------------------------------------------------------------------------
\* State machine
\* ------------------------------------------------------------------------

NoTokens == [set |-> FALSE, list |-> << >>]

NoRunner == [kind |-> "none", analyzers |-> << >>, extractors |-> << >>]

NoRet == [op |-> "none", arg |-> FALSE, raised |-> "", value |-> << >>]

NoCall == [fn |-> "none", arg |-> << >>, input |-> << >>, raised |-> "", value |-> << >>]

NoExtractor == [class |-> "none", patterns |-> << >>]

NoProc == [pc |-> "none"]

\* a new document whose content is one of texts; no runner, no extractor
\* and no call yet
NewDocument(texts) ==
    /\ content \in texts
    /\ tokensCache = NoTokens
    /\ analysis_results = << >>
    /\ metadata = << >>
    /\ runner = NoRunner
    /\ allowArg = NoneArg
    /\ pc = "idle"
    /\ ai = 0
    /\ summary = << >>
    /\ ret = NoRet
    /\ evals = 0
    /\ firstRead = NoTokens
    /\ execLog = << >>
    /\ invoked = << >>
    /\ tpc = [t \in Threads |-> "idle"]
    /\ tlocal = [t \in Threads |-> << >>]
    /\ tret = [t \in Threads |-> NoTokens]
    /\ tevals = [t \in Threads |-> 0]
    /\ call = NoCall
    /\ extractor = NoExtractor

\* one document, and no other object
InitWith(texts) ==
    /\ NewDocument(texts)
    /\ documents = << >>
    /\ runs = << >>
    /\ proc = NoProc

Init == InitWith(Contents)

\* The tokens property read in one piece: whether it evaluates the
\* tokenization, and the list it stores and returns.
MustCompute(cache) == ~cache.set

TokensOf(cache, text) == IF MustCompute(cache) THEN ComputeTokens(text) ELSE cache.list

\* the effect of one read of document.tokens on the document and the observers
TokensRead ==
    /\ tokensCache' = [set |-> TRUE, list |-> TokensOf(tokensCache, content)]
    /\ evals' = IF MustCompute(tokensCache) THEN evals + 1 ELSE evals
    /\ firstRead' = IF firstRead.set THEN firstRead
                    ELSE [set |-> TRUE, list |-> TokensOf(tokensCache, content)]

\* a caller reads document.tokens
ReadTokens ==
    /\ pc = "idle"
    /\ TokensRead
    /\ ret' = [op |-> "tokens", arg |-> FALSE, raised |-> "", value |-> TokensOf(tokensCache, content)]
    /\ UNCHANGED << content, analysis_results, metadata >>
    /\ UNCHANGED runVars
    /\ UNCHANGED thrVars
    /\ UNCHANGED libVars
    /\ UNCHANGED appVars

WroteRet == [op |-> "write", arg |-> FALSE, raised |-> "", value |-> << >>]

\* an assignment to content that also forgets the cached tokens
WriteContent_Invalidating(text) ==
    /\ pc = "idle"
    /\ text # content
    /\ content' = text
    /\ tokensCache' = NoTokens
    /\ ret' = WroteRet
    /\ UNCHANGED << analysis_results, metadata, evals, firstRead >>
    /\ UNCHANGED runVars
    /\ UNCHANGED thrVars
    /\ UNCHANGED libVars
    /\ UNCHANGED appVars

\* a caller assigns document.content (process_document does, with the
\* transformed text): a plain attribute assignment
WriteContent(text) ==
    /\ pc = "idle"
    /\ text # content
    /\ content' = text
    /\ ret' = WroteRet
    /\ UNCHANGED << tokensCache, analysis_results, metadata, evals, firstRead >>
    /\ UNCHANGED runVars
    /\ UNCHANGED thrVars
    /\ UNCHANGED libVars
    /\ UNCHANGED appVars

\* AnalyzerRunner(analyzer_names); a run constructs its runner once
NewAnalyzerRunner(arg) ==
    /\ pc = "idle"
    /\ runner.kind = "none"
    /\ runner' = [kind |-> "analyzer", analyzers |-> ActiveAnalyzers(arg), extractors |-> << >>]
    /\ allowArg' = arg
    /\ UNCHANGED << pc, ai, summary, execLog, invoked >>
    /\ UNCHANGED obsVars
    /\ UNCHANGED docVars
    /\ UNCHANGED thrVars
    /\ UNCHANGED libVars
    /\ UNCHANGED appVars

\* ExtractorRunner(extractor_names); a run constructs its runner once
NewExtractorRunner(arg) ==
    /\ pc = "idle"
    /\ runner.kind = "none"
    /\ runner' = [kind |-> "extractor", analyzers |-> << >>, extractors |-> ActiveExtractors(arg)]
    /\ allowArg' = arg
    /\ UNCHANGED << pc, ai, summary, execLog, invoked >>
    /\ UNCHANGED obsVars
    /\ UNCHANGED docVars
    /\ UNCHANGED thrVars
    /\ UNCHANGED libVars
    /\ UNCHANGED appVars

\* summary.update(result)
Update(old, new) ==
    [ k \in DOMAIN old \cup DOMAIN new |-> IF k \in DOMAIN new THEN new[k] ELSE old[k] ]

\* AnalyzerRunner.analyze is entered: summary = {}
AnalyzeStart ==
    /\ pc = "idle"
    /\ runner.kind = "analyzer"
    /\ pc' = "analyze"
    /\ ai' = 1
    /\ summary' = << >>
    /\ execLog' = << >>
    /\ ret' = NoRet
    /\ UNCHANGED << runner, allowArg, invoked, evals, firstRead >>
    /\ UNCHANGED docVars
    /\ UNCHANGED thrVars
    /\ UNCHANGED libVars
    /\ UNCHANGED appVars

\* a loop that catches the exception of an analyzer and goes on with the
\* next one
AnalyzeStep_SkipFailed ==
    /\ pc = "analyze"
    /\ ai <= Len(runner.analyzers)
    /\ LET name == runner.analyzers[ai]
           toks == TokensOf(tokensCache, content)
           res  == RunAnalyzer(name, content, toks, analysis_results)
       IN  /\ TokensRead
           /\ execLog' = Append(execLog, [name |-> name, tokens |-> toks,
                                          stored |-> DOMAIN analysis_results])
           /\ pc' = "analyze"
           /\ ai' = ai + 1
           /\ summary' = IF res.raised # "" THEN summary ELSE Update(summary, res.value)
           /\ ret' = ret
    /\ UNCHANGED << content, analysis_results, metadata, runner, allowArg, invoked >>
    /\ UNCHANGED thrVars
    /\ UNCHANGED libVars
    /\ UNCHANGED appVars

\* one turn of the loop of analyze: the next analyzer runs on the document
\* (each reads document.tokens) and its result is merged; an exception
\* leaves analyze
AnalyzeStep ==
    /\ pc = "analyze"
    /\ ai <= Len(runner.analyzers)
    /\ LET name == runner.analyzers[ai]
           toks == TokensOf(tokensCache, content)
           res  == RunAnalyzer(name, content, toks, analysis_results)
       IN  /\ TokensRead
           /\ execLog' = Append(execLog, [name |-> name, tokens |-> toks,
                                          stored |-> DOMAIN analysis_results])
           /\ IF res.raised # ""
              THEN /\ pc' = "idle"
                   /\ ai' = 0
                   /\ summary' = << >>
                   /\ ret' = [op |-> "analyze", arg |-> FALSE, raised |-> res.raised, value |-> << >>]
              ELSE /\ pc' = "analyze"
                   /\ ai' = ai + 1
                   /\ summary' = Update(summary, res.value)
                   /\ ret' = ret
    /\ UNCHANGED << content, analysis_results, metadata, runner, allowArg, invoked >>
    /\ UNCHANGED thrVars
    /\ UNCHANGED libVars
    /\ UNCHANGED appVars

\* the loop of analyze is over: return summary
AnalyzeReturn ==
    /\ pc = "analyze"
    /\ ai > Len(runner.analyzers)
    /\ pc' = "idle"
    /\ ai' = 0
    /\ summary' = << >>
    /\ ret' = [op |-> "analyze", arg |-> FALSE, raised |-> "", value |-> summary]
    /\ UNCHANGED << runner, allowArg, execLog, invoked, evals, firstRead >>
    /\ UNCHANGED docVars
    /\ UNCHANGED thrVars
    /\ UNCHANGED libVars
    /\ UNCHANGED appVars

\* an extract_all that reads document.tokens on its way
ExtractAll_ReadingTokens(unique_occurrences) ==
    /\ pc = "idle"
    /\ runner.kind = "extractor"
    /\ LET out == ExtractAllOutcome(content, runner.extractors, unique_occurrences)
       IN  ret' = [op |-> "extract_all", arg |-> unique_occurrences,
                   raised |-> out.raised, value |-> out.value]
    /\ invoked' = InvokedExtractors(content, runner.extractors)
    /\ TokensRead
    /\ UNCHANGED << runner, allowArg, pc, ai, summary, execLog >>
    /\ UNCHANGED << content, analysis_results, metadata >>
    /\ UNCHANGED thrVars
    /\ UNCHANGED libVars
    /\ UNCHANGED appVars

\* ExtractorRunner.extract_all(document, unique_occurrences)
ExtractAll(unique_occurrences) ==
    /\ pc = "idle"
    /\ runner.kind = "extractor"
    /\ LET out == ExtractAllOutcome(content, runner.extractors, unique_occurrences)
       IN  ret' = [op |-> "extract_all", arg |-> unique_occurrences,
                   raised |-> out.raised, value |-> out.value]
    /\ invoked' = InvokedExtractors(content, runner.extractors)
    /\ UNCHANGED << runner, allowArg, pc, ai, summary, execLog, evals, firstRead >>
    /\ UNCHANGED docVars
    /\ UNCHANGED thrVars
    /\ UNCHANGED libVars
    /\ UNCHANGED appVars

\* One document, its runners and their runs, single-threaded.
Next ==
    \/ ReadTokens
    \/ \E arg \in AnalyzerArgs : NewAnalyzerRunner(arg)
    \/ \E arg \in ExtractorArgs : NewExtractorRunner(arg)
    \/ AnalyzeStart
    \/ AnalyzeStep
    \/ AnalyzeReturn
    \/ \E u \in BOOLEAN : ExtractAll(u)

Spec == Init /\ [][Next]_vars

\* One document read and written by a single thread.
NextDoc ==
    \/ ReadTokens
    \/ \E text \in Written : WriteContent(text)

SpecDoc == Init /\ [][NextDoc]_vars

\* ------------------------------------------------------------------------
\* The tokens property read by several threads.  The interpreter may switch
\* threads between any two bytecodes, so one read is four steps: the test
\* of line 47, the evaluation of the right-hand side of line 50, the
\* assignment of line 50 and the return of line 51.  An assignment stores
\* a reference to a finished list.
\* ------------------------------------------------------------------------

\* a reader that evaluates the tokenization whatever _tokens holds
T_Check_Unconditional(t) ==
    /\ tpc[t] = "idle"
    /\ tpc' = [tpc EXCEPT ![t] = "compute"]
    /\ UNCHANGED << tlocal, tret, tevals >>
    /\ UNCHANGED docVars
    /\ UNCHANGED runVars
    /\ UNCHANGED obsVars
    /\ UNCHANGED libVars
    /\ UNCHANGED appVars

\* line 47: if self._tokens is None
T_Check(t) ==
    /\ tpc[t] = "idle"
    /\ tpc' = [tpc EXCEPT ![t] = IF MustCompute(tokensCache) THEN "compute" ELSE "return"]
    /\ UNCHANGED << tlocal, tret, tevals >>
    /\ UNCHANGED docVars
    /\ UNCHANGED runVars
    /\ UNCHANGED obsVars
    /\ UNCHANGED libVars
    /\ UNCHANGED appVars

\* line 50, right-hand side: re.findall(r"\w+", self.content.lower())
T_Compute(t) ==
    /\ tpc[t] = "compute"
    /\ tlocal' = [tlocal EXCEPT ![t] = ComputeTokens(content)]
    /\ tevals' = [tevals EXCEPT ![t] = @ + 1]
    /\ evals' = evals + 1
    /\ tpc' = [tpc EXCEPT ![t] = "store"]
    /\ UNCHANGED << tret, ret, firstRead >>
    /\ UNCHANGED docVars
    /\ UNCHANGED runVars
    /\ UNCHANGED libVars
    /\ UNCHANGED appVars

\* line 50, assignment: self._tokens = <the list>
T_Store(t) ==
    /\ tpc[t] = "store"
    /\ tokensCache' = [set |-> TRUE, list |-> tlocal[t]]
    /\ tpc' = [tpc EXCEPT ![t] = "return"]
    /\ UNCHANGED << content, analysis_results, metadata >>
    /\ UNCHANGED << tlocal, tret, tevals >>
    /\ UNCHANGED runVars
    /\ UNCHANGED obsVars
    /\ UNCHANGED libVars
    /\ UNCHANGED appVars

\* line 51: return self._tokens
T_Return(t) ==
    /\ tpc[t] = "return"
    /\ tret' = [tret EXCEPT ![t] = [set |-> TRUE, list |-> tokensCache.list]]
    /\ tpc' = [tpc EXCEPT ![t] = "idle"]
    /\ UNCHANGED << tlocal, tevals >>
    /\ UNCHANGED docVars
    /\ UNCHANGED runVars
    /\ UNCHANGED obsVars
    /\ UNCHANGED libVars
    /\ UNCHANGED appVars

\* One document whose tokens are read by the threads, in any interleaving.
NextThreads ==
    \E t \in Threads :
        \/ T_Check(t)
        \/ T_Compute(t)
        \/ T_Store(t)
        \/ T_Return(t)

SpecThreads == Init /\ [][NextThreads]_vars

\* ------------------------------------------------------------------------
\* One extractor object, constructed and called directly
\* ------------------------------------------------------------------------

ExtractorClass == [email |-> "EmailExtractor", url |-> "URLExtractor", date |-> "DateExtractor"]

\* EmailExtractor(), URLExtractor(), DateExtractor(): RegexExtractor.__init__
\* on the patterns of the class, all of which compile
NewCoreExtractor(key) ==
    /\ extractor.class = "none"
    /\ extractor' = [class |-> ExtractorClass[key], patterns |-> PatternsOf(key)]
    /\ call' = [fn |-> ExtractorClass[key], arg |-> << >>, input |-> << >>,
                raised |-> "", value |-> << >>]
    /\ UNCHANGED << docVars, runVars, obsVars, thrVars, appVars >>

\* CustomExtractor(name, patterns): RegexExtractor.__init__ starts from the
\* empty list and calls add_patterns; when that raises no object exists
NewCustomExtractor(patterns) ==
    /\ extractor.class = "none"
    /\ LET added == AddPatterns(<< >>, patterns)
       IN  /\ extractor' = IF added.raised = ""
                           THEN [class |-> "CustomExtractor", patterns |-> added.held]
                           ELSE extractor
           /\ call' = [fn |-> "CustomExtractor", arg |-> patterns, input |-> << >>,
                       raised |-> added.raised, value |-> << >>]
    /\ UNCHANGED << docVars, runVars, obsVars, thrVars, appVars >>

\* extractor.add_patterns(patterns): the list keeps what the loop appended
\* before it ended
ExtractorAddPatterns(patterns) ==
    /\ extractor.class = "CustomExtractor"
    /\ Len(extractor.patterns) + Len(patterns) <= MaxHeld
    /\ LET added == AddPatterns(extractor.patterns, patterns)
       IN  /\ extractor' = [extractor EXCEPT !.patterns = added.held]
           /\ call' = [fn |-> "add_patterns", arg |-> patterns, input |-> << >>,
                       raised |-> added.raised, value |-> << >>]
    /\ UNCHANGED << docVars, runVars, obsVars, thrVars, appVars >>

\* extractor.extract(document.content, unique_occurrences)
ExtractorExtract(unique_occurrences) ==
    /\ extractor.class # "none"
    /\ call' = [fn |-> "extract", arg |-> << unique_occurrences >>, input |-> content,
                raised |-> "",
                value |-> Extract(extractor.patterns, content, unique_occurrences)]
    /\ UNCHANGED extractor
    /\ UNCHANGED << docVars, runVars, obsVars, thrVars, appVars >>

NextExtractors ==
    \/ \E key \in DOMAIN ExtractorClass : NewCoreExtractor(key)
    \/ \E patterns \in PatternLists : NewCustomExtractor(patterns)
    \/ \E patterns \in PatternLists : ExtractorAddPatterns(patterns)
    \/ \E u \in BOOLEAN : ExtractorExtract(u)

InitExtractors == InitWith(ExtractTexts)

SpecExtractors == InitExtractors /\ [][NextExtractors]_vars

\* ------------------------------------------------------------------------
\* The transformers called directly on a text.  They keep nothing between
\* calls, so a behaviour is one call on one text.
\* ------------------------------------------------------------------------

NewCall(fn, arg, value) ==
    [fn |-> fn, arg |-> arg, input |-> content, raised |-> "", value |-> value]

\* Cleaner().clean_text(content)
CleanerCleanText ==
    /\ call.fn = "none"
    /\ call' = NewCall("clean_text", << >>, CleanText(content))
    /\ UNCHANGED << extractor, docVars, runVars, obsVars, thrVars, appVars >>

\* Normalizer().normalize_text(content)
NormalizerNormalizeText ==
    /\ call.fn = "none"
    /\ call' = NewCall("normalize_text", << >>, NormalizeText(content))
    /\ UNCHANGED << extractor, docVars, runVars, obsVars, thrVars, appVars >>

\* Tokenizer().tokenize_text(content)
TokenizerTokenizeText ==
    /\ call.fn = "none"
    /\ call' = NewCall("tokenize_text", << >>, TokenizeText(content))
    /\ UNCHANGED << extractor, docVars, runVars, obsVars, thrVars, appVars >>

\* TransformerPipeline(Tokenizer(), cleaner, normalizer).transform(content),
\* cleaner and normalizer each an instance or None
PipelineTransform(hasCleaner, hasNormalizer) ==
    /\ call.fn = "none"
    /\ call' = NewCall("transform", << hasCleaner, hasNormalizer >>,
                       Transform(hasCleaner, hasNormalizer, content))
    /\ UNCHANGED << extractor, docVars, runVars, obsVars, thrVars, appVars >>

NextTransformers ==
    \/ CleanerCleanText
    \/ NormalizerNormalizeText
    \/ TokenizerTokenizeText
    \/ \E hasCleaner \in BOOLEAN, hasNormalizer \in BOOLEAN :
           PipelineTransform(hasCleaner, hasNormalizer)

InitTransformers == InitWith(TransformTexts)

SpecTransformers == InitTransformers /\ [][NextTransformers]_vars

\* ------------------------------------------------------------------------
\* One analyzer called directly on a document.  The analyzers keep nothing
\* between calls, so a behaviour is one call on one document.
\* ------------------------------------------------------------------------

\* FrequencyAnalyzer().analyze(document) and the like: the analyzer reads
\* document.tokens, which the document evaluates and keeps
AnalyzerAnalyze(name) ==
    /\ call.fn = "none"
    /\ LET toks == TokensOf(tokensCache, content)
           res  == RunAnalyzer(name, content, toks, analysis_results)
       IN  /\ TokensRead
           /\ call' = [fn |-> name, arg |-> << >>, input |-> content,
                       raised |-> res.raised,
                       value |-> IF res.raised = "" THEN res.value ELSE << >>]
    /\ UNCHANGED << content, analysis_results, metadata, ret, extractor >>
    /\ UNCHANGED << runVars, thrVars, appVars >>

NextAnalyzers == \E name \in Range(AllAnalyzers) : AnalyzerAnalyze(name)

InitAnalyzers == InitWith(AnalyzeTexts)

SpecAnalyzers == InitAnalyzers /\ [][NextAnalyzers]_vars

\* ------------------------------------------------------------------------
\* One document and one AnalyzerRunner, on documents with and without
\* tokens and sentences
\* ------------------------------------------------------------------------

NextRunner ==
    \/ ReadTokens
    \/ \E arg \in AnalyzerArgs : NewAnalyzerRunner(arg)
    \/ AnalyzeStart
    \/ AnalyzeStep
    \/ AnalyzeReturn

InitRunner == InitWith(RunnerTexts)

SpecRunner == InitRunner /\ [][NextRunner]_vars

\* ------------------------------------------------------------------------
\* Several documents and one runner shared by several calls, whose steps
\* interleave
\* ------------------------------------------------------------------------

NoRun == [pc |-> "idle", op |-> "none", arg |-> FALSE, doc |-> 0, ai |-> 0,
          summary |-> << >>, during |-> {}, ret |-> NoRet]

\* a summary kept in one attribute of the runner: every call in progress
\* sees the mapping the last writer left
StoreSummary_OnTheRunner(all, c, s) ==
    [ i \in DOMAIN all |-> [all[i] EXCEPT !.summary = s] ]

\* summary is a local of each call of analyze: assigning or updating it
\* affects the call c alone
StoreSummary(all, c, s) == [all EXCEPT ![c].summary = s]

\* analyze(documents[d]) is entered by the call c; during is the set of the
\* calls in progress at that moment
SharedAnalyzeStart(c, d) ==
    /\ runner.kind = "analyzer"
    /\ runs[c].pc = "idle"
    /\ \A b \in 1..(c - 1) : runs[b].pc # "idle"
    /\ runs' = StoreSummary([runs EXCEPT ![c] = [pc |-> "analyze", op |-> "analyze",
                                                 arg |-> FALSE, doc |-> d, ai |-> 1,
                                                 summary |-> << >>,
                                                 during |-> { b \in DOMAIN runs : runs[b].pc = "analyze" },
                                                 ret |-> NoRet]],
                            c, << >>)
    /\ UNCHANGED << documents, proc >>
    /\ UNCHANGED << docVars, runVars, obsVars, thrVars, libVars >>

\* one turn of the loop of the call c: the next analyzer reads the tokens of
\* the call's document, which memoizes them, and its result is merged
SharedAnalyzeStep(c) ==
    /\ runs[c].pc = "analyze"
    /\ runs[c].ai <= Len(runner.analyzers)
    /\ LET d    == runs[c].doc
           name == runner.analyzers[runs[c].ai]
           toks == TokensOf(documents[d].tokensCache, documents[d].content)
           res  == RunAnalyzer(name, documents[d].content, toks, documents[d].analysis_results)
       IN  /\ documents' = [documents EXCEPT ![d].tokensCache = [set |-> TRUE, list |-> toks]]
           /\ IF res.raised # ""
              THEN runs' = [runs EXCEPT ![c].pc = "done", ![c].ai = 0,
                                        ![c].ret = [op |-> "analyze", arg |-> FALSE,
                                                    raised |-> res.raised, value |-> << >>]]
              ELSE runs' = StoreSummary([runs EXCEPT ![c].ai = runs[c].ai + 1], c,
                                        Update(runs[c].summary, res.value))
    /\ UNCHANGED proc
    /\ UNCHANGED << docVars, runVars, obsVars, thrVars, libVars >>

\* the loop of the call c is over: return summary
SharedAnalyzeReturn(c) ==
    /\ runs[c].pc = "analyze"
    /\ runs[c].ai > Len(runner.analyzers)
    /\ runs' = [runs EXCEPT ![c].pc = "done", ![c].ai = 0,
                            ![c].ret = [op |-> "analyze", arg |-> FALSE, raised |-> "",
                                        value |-> runs[c].summary]]
    /\ UNCHANGED << documents, proc >>
    /\ UNCHANGED << docVars, runVars, obsVars, thrVars, libVars >>

\* extract_all(documents[d], unique_occurrences) as the call c
SharedExtractAll(c, d, unique_occurrences) ==
    /\ runner.kind = "extractor"
    /\ runs[c].pc = "idle"
    /\ \A b \in 1..(c - 1) : runs[b].pc # "idle"
    /\ LET out == ExtractAllOutcome(documents[d].content, runner.extractors, unique_occurrences)
       IN  runs' = [runs EXCEPT ![c] = [pc |-> "done", op |-> "extract_all",
                                        arg |-> unique_occurrences, doc |-> d, ai |-> 0,
                                        summary |-> << >>, during |-> {},
                                        ret |-> [op |-> "extract_all", arg |-> unique_occurrences,
                                                 raised |-> out.raised, value |-> out.value]]]
    /\ UNCHANGED << documents, proc >>
    /\ UNCHANGED << docVars, runVars, obsVars, thrVars, libVars >>

NextShared ==
    \/ \E arg \in SharedAnalyzerArgs : NewAnalyzerRunner(arg)
    \/ \E arg \in SharedExtractorArgs : NewExtractorRunner(arg)
    \/ \E c \in 1..NCalls, d \in 1..NDocs : SharedAnalyzeStart(c, d)
    \/ \E c \in 1..NCalls : SharedAnalyzeStep(c)
    \/ \E c \in 1..NCalls : SharedAnalyzeReturn(c)
    \/ \E c \in 1..NCalls, d \in 1..NDocs, u \in BOOLEAN : SharedExtractAll(c, d, u)

\* NDocs new documents, no runner yet and no call made
InitShared ==
    /\ NewDocument({ << >> })
    /\ documents \in [ 1..NDocs -> { [content |-> t, tokensCache |-> NoTokens,
                                      analysis_results |-> << >>] : t \in SharedTexts } ]
    /\ runs = [ c \in 1..NCalls |-> NoRun ]
    /\ proc = NoProc

SpecShared == InitShared /\ [][NextShared]_vars

\* ------------------------------------------------------------------------
\* process_document: the text the reader produced is content; a config
\* names the analyzers, extractors and transformers requested
\* ------------------------------------------------------------------------

\* the configs of the model: each of the three lists absent or given
CliConfigs ==
    [ analyzers    : { NoneArg, ListArg(<<"SentimentAnalyzer">>) },
      extractors   : { NoneArg, ListArg(<<"EmailExtractor">>) },
      transformers : { NoneArg, ListArg(<<"Cleaner">>), ListArg(<<"Cleaner", "Normalizer">>) } ]

\* _load_document: TextDocument(content=..., source_path=..., pipeline=...);
\* the generated __init__ takes the fields declared with init (content,
\* source_path, metadata, analysis_results) only
LoadDocument(raw) ==
    LET fields == {"content", "source_path", "metadata", "analysis_results"}
        kwargs == {"content", "source_path", "pipeline"}
    IN  IF kwargs \subseteq fields
        THEN [raised |-> "", content |-> raw]
        ELSE [raised |-> "TypeError", content |-> << >>]

\* _determine_what_to_run
DetermineWhatToRun(config) ==
    LET no_args == config.extractors.none /\ config.analyzers.none /\ config.transformers.none
    IN  [run_analyzers         |-> no_args \/ ~config.analyzers.none,
         run_extractors        |-> no_args \/ ~config.extractors.none,
         run_transformers_only |-> /\ ~config.transformers.none
                                   /\ config.analyzers.none
                                   /\ config.extractors.none]

\* process_document(config) on a file whose reader produces raw: what it
\* raises, the content of the document at the end, and the text that
\* extract_all was given.  The import of apply_transformers and of
\* collect_transformer_results from text_toolkit.cli fails: cli.py defines
\* neither.
ProcessDocumentOutcome(raw, config) ==
    LET doc  == LoadDocument(raw)
        what == DetermineWhatToRun(config)
        RECURSIVE Analyzed(_, _)
        Analyzed(names, i) ==
            IF i > Len(names) THEN ""
            ELSE LET res == RunAnalyzer(names[i], doc.content, ComputeTokens(doc.content), << >>)
                 IN  IF res.raised # "" THEN res.raised ELSE Analyzed(names, i + 1)
        analysis   == IF what.run_analyzers
                      THEN Analyzed(ActiveAnalyzers(config.analyzers), 1) ELSE ""
        extraction == ExtractAllOutcome(doc.content, ActiveExtractors(config.extractors), FALSE)
        failed(e)  == [raised |-> e, loaded |-> doc.raised = "", content |-> doc.content,
                       searched |-> << >>, extracted |-> FALSE]
    IN  IF doc.raised # "" THEN failed(doc.raised)
        ELSE IF ~config.transformers.none THEN failed("ImportError")
        ELSE IF analysis # "" THEN failed(analysis)
        ELSE IF ~what.run_extractors
             THEN [raised |-> "", loaded |-> TRUE, content |-> doc.content,
                   searched |-> << >>, extracted |-> FALSE]
        ELSE [raised |-> extraction.raised, loaded |-> TRUE, content |-> doc.content,
              searched |-> doc.content, extracted |-> extraction.raised = ""]

\* one call of process_document
ProcessDocument(config) ==
    /\ proc.pc = "none"
    /\ proc' = [pc |-> "done", config |-> config, out |-> ProcessDocumentOutcome(content, config)]
    /\ UNCHANGED << documents, runs >>
    /\ UNCHANGED << docVars, runVars, obsVars, thrVars, libVars >>

NextCli == \E config \in CliConfigs : ProcessDocument(config)

SpecCli == InitWith(ExtractTexts) /\ [][NextCli]_vars

\* ------------------------------------------------------------------------
\* Properties
\* ------------------------------------------------------------------------

\* C1: on one document read by a single thread, the tokenization is
\* evaluated exactly once, by the first read: as soon as a read has
\* happened the evaluation count is 1 and stays 1, the cache holds what the
\* first read returned, and every read returns that list, also after
\* content was assigned.
C1_TokensMemoized ==
    /\ evals = (IF tokensCache.set THEN 1 ELSE 0)
    /\ tokensCache = firstRead
    /\ ret.op = "tokens" => tokensCache.set /\ ret.value = firstRead.list

\* a read that followed an assignment to content and returned the list of
\* the first read, which is not the tokenization of the present content
C1_ReadAfterWrite ==
    /\ ret.op = "tokens"
    /\ evals = 1
    /\ ret.value = firstRead.list
    /\ ret.value # ComputeTokens(content)

\* C2: the tokens of a document are the output of the pipeline (clean,
\* normalize, tokenize on whitespace) on its content, and every analyzer
\* executed in one run read that sequence.
C2_TokensArePipelineOutput ==
    /\ tokensCache.set => tokensCache.list = Transform(TRUE, TRUE, content)
    /\ \A i \in DOMAIN execLog : execLog[i].tokens = Transform(TRUE, TRUE, content)

\* C3 as stated: with several threads reading the tokens of one document,
\* the tokenization is evaluated at most once and every read returns the
\* complete token list.
C3_ComputedAtMostOnce ==
    /\ evals <= 1
    /\ \A t \in Threads : tret[t].set => tret[t].list = ComputeTokens(content)

\* C3: with several threads reading the tokens of one document, each thread
\* evaluates the tokenization at most once (so there are at most as many
\* evaluations as threads), and the cache and every read hold the complete
\* token list of the content, never a part of it.
C3_OncePerReaderNeverPartial ==
    /\ evals <= NThreads
    /\ \A t \in Threads :
        /\ tevals[t] <= 1
        /\ tret[t].set => tret[t].list = ComputeTokens(content)
    /\ tokensCache.set => tokensCache.list = ComputeTokens(content)

\* two threads have both evaluated the tokenization of a document that has
\* tokens, and every thread has returned from its read
C3_TwoEvaluations ==
    /\ evals >= 2
    /\ ComputeTokens(content) # << >>
    /\ \A t \in Threads : tret[t].set /\ tpc[t] = "idle"

\* C4: the analyzers executed by analyze are, in this order, Frequency,
\* LanguageDetector, Sentiment, Readability restricted to the active ones,
\* each once: while analyze runs the executed ones are the first ai - 1 of
\* them, and when it returns all of them.  The active ones are those named
\* in the allow-list, or all four when the list is absent or empty.
C4_EachOnceInFixedOrder ==
    LET order    == << "FrequencyAnalyzer", "LanguageDetector", "SentimentAnalyzer", "ReadabilityAnalyzer" >>
        allowed  == IF allowArg.none \/ allowArg.list = << >>
                    THEN { order[i] : i \in DOMAIN order }
                    ELSE { allowArg.list[i] : i \in DOMAIN allowArg.list }
        expected == SelectSeq(order, LAMBDA a : a \in allowed)
        executed == [ i \in DOMAIN execLog |-> execLog[i].name ]
    IN  /\ runner.kind = "analyzer" => Len(executed) <= Len(expected)
                                       /\ executed = SubSeq(expected, 1, Len(executed))
        /\ pc = "analyze" => Len(executed) = ai - 1
        /\ (ret.op = "analyze" /\ ret.raised = "") => executed = expected

\* analyze has returned for an allow-list that names Readability before
\* Frequency: Frequency ran first, Readability second, each once
C4_ReversedAllowList ==
    /\ ret.op = "analyze"
    /\ ret.raised = ""
    /\ allowArg = ListArg(<< "ReadabilityAnalyzer", "FrequencyAnalyzer" >>)
    /\ Len(execLog) = 2
    /\ execLog[1].name = "FrequencyAnalyzer"
    /\ execLog[2].name = "ReadabilityAnalyzer"

\* C5: analyze returns a flat mapping, and with all four analyzers active
\* the mapping has the 13 keys of the four results, which are disjoint.
C5_FlatReportOfThirteenKeys ==
    (ret.op = "analyze" /\ Len(runner.analyzers) = 4) =>
        /\ ret.raised = ""
        /\ Cardinality(DOMAIN ret.value) = 13

\* C6: when Readability executes in a run in which LanguageDetector
\* executed before it, the result of LanguageDetector is in the result
\* store of the document.
C6_LanguageStoredBeforeReadability ==
    \A i \in DOMAIN execLog :
        ( /\ execLog[i].name = "ReadabilityAnalyzer"
          /\ \E j \in 1..(i - 1) : execLog[j].name = "LanguageDetector" )
        => "language_detector" \in execLog[i].stored

\* C7: a runner constructed with a non-empty allow-list has as its active
\* set the recognized names of the list (for the extractors, their keys);
\* the names that are not recognized contribute nothing and the
\* construction completes.
C7_UnknownNamesIgnored ==
    LET given == { allowArg.list[i] : i \in DOMAIN allowArg.list }
        names == { "FrequencyAnalyzer", "LanguageDetector", "SentimentAnalyzer", "ReadabilityAnalyzer" }
        keys  == [EmailExtractor |-> "email", URLExtractor |-> "url", DateExtractor |-> "date"]
    IN  /\ (runner.kind = "analyzer" /\ given # {}) =>
               { runner.analyzers[i] : i \in DOMAIN runner.analyzers } = given \cap names
        /\ (runner.kind = "extractor" /\ given # {}) =>
               { runner.extractors[i] : i \in DOMAIN runner.extractors }
                   = { keys[n] : n \in given \cap DOMAIN keys }

\* an ExtractorRunner was constructed from a list of names none of which
\* is recognized: it has no active extractor
C7_OnlyUnknownNames ==
    /\ runner.kind = "extractor"
    /\ allowArg = ListArg(<< "PhoneExtractor" >>)
    /\ runner.extractors = << >>

\* C8: for a document that is not empty, extract_all returns a result
\* whose active_extractors are the configured categories, whose lists of
\* the inactive categories are empty and whose lists of the active
\* categories are the matches of their extractors over the content.
C8_ResultOfConfiguredCategories ==
    (ret.op = "extract_all" /\ ~IsEmpty(content)) =>
        /\ ret.raised = ""
        /\ ret.value.active_extractors = runner.extractors
        /\ \A k \in {"email", "url", "date"} :
               LET got == CASE k = "email" -> ret.value.email_matches
                            [] k = "url"   -> ret.value.url_matches
                            [] k = "date"  -> ret.value.date_matches
               IN  IF k \in { runner.extractors[i] : i \in DOMAIN runner.extractors }
                   THEN got = Extract(PatternsOf(k), content, ret.arg)
                   ELSE got = << >>

\* C9: for a document whose content is empty or only whitespace,
\* extract_all returns a result with the three lists empty and invokes no
\* extractor, whatever the active extractors and the flag.
C9_EmptyDocumentShortCircuits ==
    (ret.op = "extract_all" /\ \A i \in DOMAIN content : content[i] \in Space) =>
        /\ ret.raised = ""
        /\ ret.value.email_matches = << >>
        /\ ret.value.url_matches = << >>
        /\ ret.value.date_matches = << >>
        /\ invoked = << >>

\* extract_all has returned, with the flag set, for a document of one
\* blank and a runner with all three extractors
C9_WhitespaceOnlyDocument ==
    /\ ret.op = "extract_all"
    /\ ret.arg
    /\ ret.raised = ""
    /\ content = << " " >>
    /\ Len(runner.extractors) = 3

\* C10: the extraction with unique_occurrences is the extraction without
\* it with every value kept at its first occurrence only (no duplicates,
\* the same values, the order of the first occurrences), for the extract
\* of each extractor and for each list of the result of extract_all.
C10_UniqueIsFirstOccurrences ==
    LET FirstOccurrences(all, uniq) ==
            /\ \A i, j \in DOMAIN uniq : i # j => uniq[i] # uniq[j]
            /\ { uniq[i] : i \in DOMAIN uniq } = { all[i] : i \in DOMAIN all }
            /\ \A i, j \in DOMAIN uniq :
                   i < j => (CHOOSE m \in DOMAIN all : all[m] = uniq[i] /\ \A n \in 1..(m - 1) : all[n] # uniq[i])
                          < (CHOOSE m \in DOMAIN all : all[m] = uniq[j] /\ \A n \in 1..(m - 1) : all[n] # uniq[j])
        all_run  == ExtractAllOutcome(content, runner.extractors, FALSE)
        uniq_run == ExtractAllOutcome(content, runner.extractors, TRUE)
    IN  /\ \A k \in {"email", "url", "date"} :
               FirstOccurrences(Extract(PatternsOf(k), content, FALSE), Extract(PatternsOf(k), content, TRUE))
        /\ ret.op = "extract_all" =>
               /\ all_run.raised = ""
               /\ uniq_run.raised = ""
               /\ FirstOccurrences(all_run.value.email_matches, uniq_run.value.email_matches)
               /\ FirstOccurrences(all_run.value.url_matches, uniq_run.value.url_matches)
               /\ FirstOccurrences(all_run.value.date_matches, uniq_run.value.date_matches)

\* C11: extract without deduplication returns the find-all matches of the
\* first registered pattern, then those of the second, and so on: the
\* matches of the i-th pattern fill the positions after those of all the
\* patterns registered before it, each pattern's matches in text order.
C11_ConcatenationInRegistrationOrder ==
    (call.fn = "extract" /\ call.arg = << FALSE >>) =>
        LET ps == extractor.patterns
            matches(i) == FindAll(call.input, ps[i])
            RECURSIVE before(_)
            before(i) == IF i = 1 THEN 0 ELSE before(i - 1) + Len(matches(i - 1))
        IN  /\ call.raised = ""
            /\ Len(call.value) = before(Len(ps) + 1)
            /\ \A i \in 1..Len(ps) : \A k \in 1..Len(matches(i)) :
                   call.value[before(i) + k] = matches(i)[k]

\* the match of the third URL pattern lies before the match of the first
\* in the text, and after it in the result
C11_LaterPatternMatchesEarlierInText ==
    /\ call.fn = "extract"
    /\ call.arg = << FALSE >>
    /\ extractor.class = "URLExtractor"
    /\ call.input = <<"w","w","w",".","a",".","e","s"," ",
                      "h","t","t","p",":","/","/","b",".","c","o"," ">>
    /\ call.value = << <<"h","t","t","p",":","/","/","b",".","c","o">>,
                       <<"w","w","w",".","a",".","e","s">> >>

C13_ProtectedSubstringsSurvive ==
    LET text    == call.input
        out     == call.value
        shaped  == \E j \in DOMAIN text : IsPrefixAt(text, j, <<"_","_","P","R","O","T">>)
        matches == UNION { { FindAll(text, ProtectPasses[p])[k] :
                                 k \in DOMAIN FindAll(text, ProtectPasses[p]) } :
                           p \in DOMAIN ProtectPasses }
        covered(j) == \E m \in matches : \E start \in 1..j :
                          IsPrefixAt(out, start, m) /\ j < start + Len(m)
    IN  (call.fn = "clean_text" /\ ~shaped) =>
            /\ \A m \in matches : \E start \in DOMAIN out : IsPrefixAt(out, start, m)
            /\ \A j \in DOMAIN out :
                   \/ covered(j)
                   \/ out[j] \in WordChar
                   \/ out[j] = " " /\ (j < Len(out) => out[j + 1] # " " \/ covered(j + 1))

\* C14: normalizing the result of normalize_text changes nothing.
C14_NormalizeIsIdempotent ==
    call.fn = "normalize_text" => NormalizeText(call.value) = call.value

\* C15: transform returns tokenize_text of normalize_text (when a
\* normalizer is present) of clean_text (when a cleaner is present) of the
\* text, for each of the four pipelines; without both it is tokenize_text
\* of the text itself.
C15_CleanThenNormalizeThenTokenize ==
    call.fn = "transform" =>
        /\ call.raised = ""
        /\ call.value = Bind(IF call.arg[1] THEN CleanText(call.input) ELSE call.input, LAMBDA stage1 :
                         Bind(IF call.arg[2] THEN NormalizeText(stage1) ELSE stage1, LAMBDA stage2 :
                              TokenizeText(stage2)))
        /\ call.arg = << FALSE, FALSE >> => call.value = TokenizeText(call.input)

\* a full pipeline ran on a text that both stages change, and whose
\* service mark the cleaner must remove before the normalizer expands it
C15_BothStagesChangedTheText ==
    /\ call.fn = "transform"
    /\ call.arg = << TRUE, TRUE >>
    /\ call.input = << "E_acute", "l", "\t", "service_mark" >>
    /\ call.value = << << "e", "l" >> >>

\* C16: every token of tokenize_text is non-empty and free of whitespace;
\* the tokens joined in their order are the text without its whitespace;
\* a text of whitespace only, the empty text included, has no token.
C16_TokensPartitionTheNonWhitespace ==
    call.fn = "tokenize_text" =>
        LET tokens == call.value
        IN  /\ call.raised = ""
            /\ \A i \in DOMAIN tokens :
                   /\ tokens[i] # << >>
                   /\ \A j \in DOMAIN tokens[i] : tokens[i][j] \notin Space
            /\ ConcatAll(tokens) = SelectSeq(call.input, LAMBDA c : c \notin Space)
            /\ (\A j \in DOMAIN call.input : call.input[j] \in Space) => tokens = << >>

\* a text with a blank inside and a tab at its end gave two tokens
C16_TwoTokensBetweenMixedWhitespace ==
    /\ call.fn = "tokenize_text"
    /\ call.input = << "H", "i", ",", " ", "E_acute", "l", "\t" >>
    /\ call.value = << << "H", "i", "," >>, << "E_acute", "l" >> >>

\* C17: for a document with a token, FrequencyAnalyzer's total_words is
\* the number of tokens, word_counts has exactly one entry per distinct
\* token, holding the number of its occurrences, and the counts of
\* word_counts add up to total_words.
C17_CountsAddUpToTotalWords ==
    (call.fn = "FrequencyAnalyzer" /\ tokensCache.list # << >>) =>
        LET tokens == tokensCache.list
            counts == call.value.word_counts
            RECURSIVE sum(_)
            sum(i) == IF i > Len(counts) THEN 0 ELSE counts[i][2] + sum(i + 1)
        IN  /\ call.raised = ""
            /\ call.value.total_words = Len(tokens)
            /\ \A i \in DOMAIN tokens :
                   \E k \in DOMAIN counts :
                       /\ counts[k][1] = tokens[i]
                       /\ counts[k][2] = Cardinality({ j \in DOMAIN tokens : tokens[j] = tokens[i] })
            /\ \A k \in DOMAIN counts : \E i \in DOMAIN tokens : tokens[i] = counts[k][1]
            /\ \A k, l \in DOMAIN counts : counts[k][1] = counts[l][1] => k = l
            /\ sum(1) = call.value.total_words

\* a document of four tokens, one of them twice, was analyzed
C17_RepeatedTokenCounted ==
    /\ call.fn = "FrequencyAnalyzer"
    /\ tokensCache.list = << <<"g","o","o","d">>, <<"g","r","e","a","t">>, <<"b","a","d">>, <<"b","a","d">> >>
    /\ call.value.total_words = 4
    /\ call.value.word_counts = << << <<"g","o","o","d">>, 1 >>, << <<"g","r","e","a","t">>, 1 >>,
                                   << <<"b","a","d">>, 2 >> >>

\* C18: top_words has min(10, number of distinct tokens) entries, each an
\* entry of word_counts; its entries stand in the order of descending
\* count, equal counts in the order of first occurrence among the tokens,
\* and every token left out comes after every token taken in that order, so
\* none left out has a higher count than one taken.
C18_TopWordsAreTheTenMostFrequent ==
    call.fn = "FrequencyAnalyzer" =>
        LET tokens   == tokensCache.list
            top      == call.value.top_words
            counts   == call.value.word_counts
            distinct == { tokens[i] : i \in DOMAIN tokens }
            count(t) == Cardinality({ i \in DOMAIN tokens : tokens[i] = t })
            first(t) == CHOOSE i \in DOMAIN tokens :
                            tokens[i] = t /\ \A j \in 1..(i - 1) : tokens[j] # t
            precedes(a, b) == count(a) > count(b) \/ (count(a) = count(b) /\ first(a) < first(b))
            taken    == { top[r][1] : r \in DOMAIN top }
        IN  /\ Len(top) = (IF Cardinality(distinct) < 10 THEN Cardinality(distinct) ELSE 10)
            /\ \A r \in DOMAIN top : \E k \in DOMAIN counts : counts[k] = top[r]
            /\ \A r \in DOMAIN top : top[r][1] \in distinct /\ top[r][2] = count(top[r][1])
            /\ \A r, q \in DOMAIN top : r < q => precedes(top[r][1], top[q][1])
            /\ \A t \in distinct \ taken : \A u \in taken :
                   precedes(u, t) /\ count(t) <= count(u)

\* thirteen distinct tokens, the last of them twice: it leads top_words
\* and three tokens are left out
C18_MoreThanTenDistinctTokens ==
    /\ call.fn = "FrequencyAnalyzer"
    /\ Len(call.value.word_counts) = 13
    /\ Len(call.value.top_words) = 10
    /\ call.value.top_words[1] = << << "h" >>, 2 >>
    /\ call.value.top_words[2] = << << "t", "h", "e" >>, 1 >>

\* C19: with the score of a language being the number of its stopwords
\* among the distinct tokens divided by the size of its stopword list, the
\* detector returns the first language, in the order of the mapping, whose
\* score no other language exceeds, with that score rounded to two
\* decimals; it returns "unknown" with confidence 0.0 exactly when no
\* token is a stopword of any language.
C19_HighestScoreFirstOnTie ==
    call.fn = "LanguageDetector" =>
        LET words   == { tokensCache.list[i] : i \in DOMAIN tokensCache.list }
            hits(l) == Cardinality(words \cap Stopwords[l])
            size(l) == Cardinality(Stopwords[l])
            langs   == StopwordLangs
            \* hits(a)/size(a) <= hits(b)/size(b)
            atMost(a, b) == hits(a) * size(b) <= hits(b) * size(a)
            noHit   == \A i \in DOMAIN langs : hits(langs[i]) = 0
            unknown == call.value.language = "unknown" /\ call.value.confidence = 0
        IN  /\ call.raised = ""
            /\ noHit <=> unknown
            /\ ~noHit =>
                   \E i \in DOMAIN langs :
                       /\ call.value.language = langs[i]
                       /\ \A j \in DOMAIN langs : atMost(langs[j], langs[i])
                       /\ \A j \in 1..(i - 1) : ~atMost(langs[i], langs[j])
                       /\ call.value.confidence = Round2(hits(langs[i]), size(langs[i]))

\* two of the six English and one of the three Spanish stopwords: a tie of
\* one third each, and the first language of the mapping is returned
C19_TieGoesToTheFirstLanguage ==
    /\ call.fn = "LanguageDetector"
    /\ tokensCache.list = << <<"t","h","e">>, <<"a">>, <<"e","l">> >>
    /\ call.value = [language |-> "en", confidence |-> 33]

\* C20: pos_count and neg_count are the numbers of token occurrences in
\* the positive and in the negative lexicon; the score returned is
\* (pos_count - neg_count) / (pos_count + neg_count), to two decimals, when
\* that sum is not zero and 0.0 otherwise; it lies between -1 and 1; a
\* document without a lexicon token gets score 0.0 and the label neutral.
C20_ScoreIsNormalizedDifference ==
    call.fn = "SentimentAnalyzer" =>
        LET tokens == tokensCache.list
            pos    == Cardinality({ i \in DOMAIN tokens : tokens[i] \in PosWords })
            neg    == Cardinality({ i \in DOMAIN tokens : tokens[i] \in NegWords })
        IN  /\ call.raised = ""
            /\ call.value.pos_count = pos
            /\ call.value.neg_count = neg
            /\ pos + neg > 0 => call.value.score = Round2(pos - neg, pos + neg)
            /\ pos + neg = 0 => call.value.score = 0 /\ call.value.sentiment = "neutral"
            /\ call.value.score >= 0 - 100
            /\ call.value.score <= 100

\* two positive and three negative occurrences, the negative word three
\* times: the score is -0.2
C20_NegativeWordCountedThreeTimes ==
    /\ call.fn = "SentimentAnalyzer"
    /\ call.value = [sentiment |-> "negative", score |-> 0 - 20, pos_count |-> 2, neg_count |-> 3]

\* C21: for a document with a token and a sentence, ReadabilityAnalyzer
\* returns the averages tokens / sentences and token characters / tokens,
\* and the complexity high when an average exceeds its high bound, else
\* medium when one exceeds its medium bound, else low; an average equal to
\* a bound does not exceed it.
C21_ComplexityByThresholds ==
    LET tokens    == tokensCache.list
        sentences == ExtractSentences(call.input)
        language  == GetDocumentLanguage(analysis_results)
        bounds    == LoadReadabilityThresholds.items
        t         == IF language \in DOMAIN bounds THEN bounds[language] ELSE bounds["default"]
        sn        == Len(tokens)
        sd        == Len(sentences)
        wn        == SumLen(tokens)
        wd        == Len(tokens)
        high      == 100 * sn > t.sent_high * sd \/ 100 * wn > t.word_high * wd
        medium    == 100 * sn > t.sent_med * sd \/ 100 * wn > t.word_med * wd
    IN  (call.fn = "ReadabilityAnalyzer" /\ tokens # << >> /\ sentences # << >>) =>
            /\ call.raised = ""
            /\ call.value.avg_sentence_length = Round2(sn, sd)
            /\ call.value.avg_word_length = Round2(wn, wd)
            /\ call.value.complexity = (IF high THEN "high" ELSE IF medium THEN "medium" ELSE "low")

\* C22: for a document without tokens or without sentences, analyze with
\* the four analyzers active raises nothing and returns the thirteen
\* defaults of the four empty results.
C22_DegenerateDocumentGetsDefaults ==
    ( /\ ret.op = "analyze"
      /\ runner.analyzers = AllAnalyzers
      /\ (ComputeTokens(content) = << >> \/ ExtractSentences(content) = << >>) ) =>
        /\ ret.raised = ""
        /\ ret.value = [total_words |-> 0, top_words |-> << >>, word_counts |-> << >>,
                        most_common_length |-> 0,
                        language |-> "unknown", confidence |-> 0,
                        sentiment |-> "neutral", score |-> 0, pos_count |-> 0, neg_count |-> 0,
                        avg_sentence_length |-> 0, avg_word_length |-> 0,
                        complexity |-> "unknown"]

\* the four analyzers ran on a document with one sentence and no token
C22_SentenceWithoutTokens ==
    /\ ret.op = "analyze"
    /\ runner.analyzers = AllAnalyzers
    /\ content = << "diaeresis", ",", " " >>
    /\ ExtractSentences(content) # << >>
    /\ ret.raised = ""
    /\ ret.value.complexity = "unknown"

\* C23: on one shared runner every finished call of analyze or extract_all
\* has the outcome that the content of its document alone determines,
\* whatever the other calls did meanwhile, so two calls of the same
\* operation on equal contents have equal outcomes.
C23_OutcomeDependsOnContentOnly ==
    LET RECURSIVE Analyzed(_, _, _)
        Analyzed(text, i, acc) ==
            IF i > Len(runner.analyzers) THEN [raised |-> "", value |-> acc]
            ELSE LET res == RunAnalyzer(runner.analyzers[i], text, ComputeTokens(text), << >>)
                 IN  IF res.raised # "" THEN [raised |-> res.raised, value |-> << >>]
                     ELSE Analyzed(text, i + 1, Update(acc, res.value))
        Expected(r) ==
            LET text == documents[r.doc].content
            IN  IF r.op = "analyze" THEN Analyzed(text, 1, << >>)
                ELSE ExtractAllOutcome(text, runner.extractors, r.arg)
        done == { c \in DOMAIN runs : runs[c].pc = "done" }
    IN  /\ \A c \in done :
              /\ runs[c].ret.raised = Expected(runs[c]).raised
              /\ runs[c].ret.value = Expected(runs[c]).value
        /\ \A a, b \in done :
              ( /\ runs[a].op = runs[b].op
                /\ runs[a].arg = runs[b].arg
                /\ documents[runs[a].doc].content = documents[runs[b].doc].content ) =>
                  runs[a].ret = runs[b].ret

\* two calls of analyze returned, the second begun while the first was in
\* progress, on documents of different contents
C23_InterleavedCallsOnTwoDocuments ==
    /\ DOMAIN runs = 1..NCalls
    /\ runs[1].pc = "done" /\ runs[2].pc = "done"
    /\ runs[2].during = {1}
    /\ runs[1].doc # runs[2].doc
    /\ documents[1].content # documents[2].content
    /\ runs[1].ret.raised = "" /\ runs[2].ret.raised = ""
    /\ runs[1].ret.value # runs[2].ret.value
    /\ runs[1].ret.value.total_words > 0

\* C24: in every run of process_document in which extractors run, whatever
\* else is requested, the extractors are given the text the reader
\* produced, and the content of the document at the end is that text.
C24_ExtractorsMatchTheRawText ==
    ( /\ proc.pc = "done"
      /\ DetermineWhatToRun(proc.config).run_extractors ) =>
        /\ proc.out.loaded
        /\ proc.out.content = content
        /\ proc.out.extracted
        /\ proc.out.searched = content

\* C25: when an analyzer executed by analyze raised, the call ended with
\* that exception and returned no mapping; a mapping is returned only when
\* every active analyzer was executed and none raised, and it then holds
\* the keys of all their results.  Nothing is returned while the call runs.
C25_NoPartialReport ==
    LET outcome(i) == RunAnalyzer(execLog[i].name, content, execLog[i].tokens, analysis_results)
        failed     == { i \in DOMAIN execLog : outcome(i).raised # "" }
    IN  /\ pc = "analyze" => (ret = NoRet /\ failed = {})
        /\ (ret.op = "analyze" /\ failed # {}) =>
               /\ failed = { Len(execLog) }
               /\ ret.raised = outcome(Len(execLog)).raised
               /\ ret.value = << >>
        /\ (ret.op = "analyze" /\ ret.raised = "") =>
               /\ [ i \in DOMAIN execLog |-> execLog[i].name ] = runner.analyzers
               /\ DOMAIN ret.value = UNION { DOMAIN outcome(i).value : i \in DOMAIN execLog }

\* the fourth of four analyzers raised after the results of three had been
\* merged, and the call ended with its exception
C25_LastOfFourRaised ==
    /\ ret.op = "analyze"
    /\ Len(runner.analyzers) = 4
    /\ Len(execLog) = 4
    /\ ret.raised = "AttributeError"
    /\ ret.value = << >>

\* C26: when the text given to clean_text holds no placeholder-shaped
\* substring, no substring stored by a protection pass holds a placeholder
\* and the output holds none, also when a protected substring lies inside
\* another one.
C26_NoPlaceholderSurvives ==
    LET text      == call.input
        mark      == <<"_","_","P","R","O","T">>
        Shaped(t) == \E j \in DOMAIN t : IsPrefixAt(t, j, mark)
        stored    == ProtectAll(text, << >>, 1).protected
    IN  (call.fn = "clean_text" /\ ~Shaped(text)) =>
            /\ \A i \in DOMAIN stored : ~Shaped(stored[i])
            /\ ~Shaped(call.value)

\* C27: in every result of SentimentAnalyzer the label is positive exactly
\* when the returned score, a number of hundredths, is above 0.1, negative
\* exactly when it is below -0.1, and neutral otherwise.
C27_LabelAgreesWithReturnedScore ==
    (call.fn = "SentimentAnalyzer" /\ call.raised = "") =>
        /\ call.value.sentiment = "positive" <=> call.value.score > 10
        /\ call.value.sentiment = "negative" <=> call.value.score < 0 - 10
        /\ call.value.sentiment = "neutral"  <=> (call.value.score <= 10 /\ call.value.score >= 0 - 10)

\* C28: a runner constructed with a list that is not empty and names no
\* known class has no active analyzer or extractor; analyze then returns
\* the empty mapping, and extract_all on a document that is not empty
\* returns three empty lists and invokes no extractor.
C28_NoRecognizedNameNoFallback ==
    LET given    == { allowArg.list[i] : i \in DOMAIN allowArg.list }
        analyzer == { "FrequencyAnalyzer", "LanguageDetector", "SentimentAnalyzer", "ReadabilityAnalyzer" }
        extractr == { "EmailExtractor", "URLExtractor", "DateExtractor" }
    IN  /\ (runner.kind = "analyzer" /\ given # {} /\ given \cap analyzer = {}) =>
               /\ runner.analyzers = << >>
               /\ ret.op = "analyze" => (ret.raised = "" /\ ret.value = << >>)
        /\ (runner.kind = "extractor" /\ given # {} /\ given \cap extractr = {}) =>
               /\ runner.extractors = << >>
               /\ (ret.op = "extract_all" /\ ~IsEmpty(content)) =>
                      /\ ret.raised = ""
                      /\ ret.value.email_matches = << >>
                      /\ ret.value.url_matches = << >>
                      /\ ret.value.date_matches = << >>
                      /\ invoked = << >>

\* C29: a call of add_patterns that raises ValueError at the k-th source of
\* its list leaves the extractor with the patterns it held before, in
\* their order, followed by the compiled first k - 1 sources of the list;
\* and an extract call returns the matches of all the patterns the
\* extractor holds at that moment.
C29_AddPatternsKeepsWhatItAppended ==
    [][ /\ ( /\ extractor.class = "CustomExtractor"
             /\ call'.fn = "add_patterns"
             /\ call'.raised = "ValueError" ) =>
               LET given == call'.arg
                   k     == SetMin({ i \in DOMAIN given : ReCompile(given[i]).raised # "" })
               IN  /\ extractor'.class = "CustomExtractor"
                   /\ Len(extractor'.patterns) = Len(extractor.patterns) + (k - 1)
                   /\ SubSeq(extractor'.patterns, 1, Len(extractor.patterns)) = extractor.patterns
                   /\ \A i \in 1..(k - 1) :
                          extractor'.patterns[Len(extractor.patterns) + i] = ReCompile(given[i]).items
        /\ (call'.fn = "extract" /\ call'.arg = << FALSE >>) =>
               LET RECURSIVE all(_)
                   all(i) == IF i > Len(extractor.patterns) THEN << >>
                             ELSE FindAll(call'.input, extractor.patterns[i]) \o all(i + 1)
               IN  call'.value = all(1) ]_vars

\* add_patterns raised at the second source of its list on an extractor
\* that held one pattern: the extractor holds that pattern and the first
\* of the list
C29_FirstOfTwoStayed ==
    /\ call.fn = "add_patterns"
    /\ call.arg = << "\\d+", "[invalid(regex" >>
    /\ call.raised = "ValueError"
    /\ extractor.class = "CustomExtractor"
    /\ extractor.patterns = << ReCompile("[a-z]+").items, ReCompile("\\d+").items >>

\* C30: no step of analyze and no call of extract_all changes the content,
\* the metadata or the analysis_results of the document; a step of analyze
\* leaves the token cache as it is or sets it, when it is unset, to the
\* tokens of the content; extract_all leaves the token cache as it is and
\* evaluates no tokenization.
C30_RunnersWriteNothingButTheTokenCache ==
    [][ /\ (pc = "analyze" \/ pc' = "analyze") =>
               /\ content' = content
               /\ metadata' = metadata
               /\ analysis_results' = analysis_results
               /\ \/ tokensCache' = tokensCache /\ evals' = evals
                  \/ /\ ~tokensCache.set
                     /\ tokensCache' = [set |-> TRUE, list |-> ComputeTokens(content)]
                     /\ evals' = evals + 1
        /\ (runner.kind = "extractor" /\ ret'.op = "extract_all") =>
               /\ content' = content
               /\ metadata' = metadata
               /\ analysis_results' = analysis_results
               /\ tokensCache' = tokensCache
               /\ evals' = evals ]_vars

\* analyze returned after two analyzers had run on a document with tokens:
\* the cache is set, from one evaluation, and nothing is stored in the
\* document
C30_AnalyzedDocumentOnlyTokenized ==
    /\ ret.op = "analyze"
    /\ ret.raised = ""
    /\ Len(execLog) = 2
    /\ tokensCache.set
    /\ tokensCache.list # << >>
    /\ evals = 1
    /\ analysis_results = << >>
    /\ metadata = << >>

====
